---- MODULE Spec2Model ----
(***************************************************************************)
(* A model of the Ink interpreter (src/src/ink/interpreter.py): the AST    *)
(* nodes, substitution, unification, the classification closure, the rule  *)
(* engine, the fixpoint driver, the query evaluator and eval_program.      *)
(*                                                                         *)
(* Strings are ASCII here: the variable marker (U+5176) is written "qi",   *)
(* so the variable qiX is the source's marker followed by X; the two       *)
(* output symbols are written "T" (derivable, U+22A4) and "?".             *)
(***************************************************************************)
EXTENDS Integers, Sequences, FiniteSets, TLC

VARIABLES
    pc,                    \* position of the caller / of the running function
    ast,                   \* eval_program: the parsed statement list
    facts,                 \* Context.facts
    classification_edges,  \* Context.classification_edges
    rules,                 \* Context.rules (a list)
    verb_lexicon,          \* Context.verb_lexicon
    queries,               \* the queries asked so far / the queries of the program
    output,                \* the lines printed (or returned by evaluate_query)
    entry,                 \* the context as it was when fixpoint() was entered
    calls,                 \* how many times the function under study was called
    edges,                 \* compute_classification_closure: the argument
    closure,               \* compute_classification_closure: local closure
    changed,               \* compute_classification_closure: local changed
    parser,                \* the Parser object: tokens, position, verb_lexicon
    raised,                \* the exception a call ended with ("" for none)
    call                   \* a library call of unify / apply_substitution

vars == <<pc, ast, facts, classification_edges, rules, verb_lexicon, queries,
          output, entry, calls, edges, closure, changed, parser, raised, call>>

(***************************************************************************)
(* Bounds of the model.                                                    *)
(***************************************************************************)
MaxEdges == 3       \* edges in an argument of compute_classification_closure
MaxFacts == 3       \* facts in a context handed to fixpoint
MaxRules == 2       \* rules in a context handed to fixpoint
MaxCalls == 2       \* calls of fixpoint / of the closure on one context
MaxQueries == 1     \* evaluate_query calls of a library caller
MaxStatements == 5  \* statements of a program given to eval_program
MaxChain == 4       \* edges of a chain or a cycle given to the closure
MaxVerbs == 2       \* verbs declared at the head of a program
MaxText == 4        \* characters of a clause that is one token
MaxRun == 4         \* tokens of a clause of several tokens
MaxSupertype == 2   \* tokens between the two particles of a classification edge

(***************************************************************************)
(* AST nodes (src/src/ink/ast_nodes.py).  A frozen dataclass is a record;  *)
(* the field variant is the class of the node.                             *)
(***************************************************************************)
Proposition(identifier, is_variable) ==
    [variant |-> "Proposition", identifier |-> identifier, is_variable |-> is_variable]

SVOClause(subject, subject_is_var, verb, verb_is_var, object, object_is_var) ==
    [variant |-> "SVOClause",
     subject |-> subject, subject_is_var |-> subject_is_var,
     verb |-> verb, verb_is_var |-> verb_is_var,
     object |-> object, object_is_var |-> object_is_var]

ClassificationEdge(subtype, subtype_is_var, supertype, supertype_is_var) ==
    [variant |-> "ClassificationEdge",
     subtype |-> subtype, subtype_is_var |-> subtype_is_var,
     supertype |-> supertype, supertype_is_var |-> supertype_is_var]

Rule(premises, conclusion) ==
    [variant |-> "Rule", premises |-> premises, conclusion |-> conclusion]

Query(expression) == [variant |-> "Query", expression |-> expression]

VerbDeclaration(verb) == [variant |-> "VerbDeclaration", verb |-> verb]

IsProposition(node) == node.variant = "Proposition"
IsSVOClause(node) == node.variant = "SVOClause"
IsClassificationEdge(node) == node.variant = "ClassificationEdge"

(***************************************************************************)
(* Substitutions are Python dicts from variable names to identifiers: a    *)
(* function with a finite set of strings as its domain.  None is the       *)
(* failure value of unify; it is no dict a unification can build, because  *)
(* its key is no name of the model.                                        *)
(***************************************************************************)
EmptySubst == [v \in {} |-> ""]
None == [v \in {"None"} |-> "None"]
TypeError == [v \in {"TypeError"} |-> "TypeError"]
TypeErrorNode == [variant |-> "TypeError"]

\* subst.copy() followed by new_subst[var] = value
Bind(subst, var, value) == (var :> value) @@ subst

\* a substituted slot gets the bound value and stays flagged variable
apply_substitution_keeps_flag(node, subst) ==
    CASE IsProposition(node) ->
            IF node.is_variable /\ node.identifier \in DOMAIN subst
            THEN Proposition(subst[node.identifier], TRUE)
            ELSE node
      [] IsSVOClause(node) ->
            SVOClause(
                IF node.subject_is_var /\ node.subject \in DOMAIN subst
                    THEN subst[node.subject] ELSE node.subject,
                node.subject_is_var,
                IF node.verb_is_var /\ node.verb \in DOMAIN subst
                    THEN subst[node.verb] ELSE node.verb,
                node.verb_is_var,
                IF node.object_is_var /\ node.object \in DOMAIN subst
                    THEN subst[node.object] ELSE node.object,
                node.object_is_var)
      [] IsClassificationEdge(node) ->
            ClassificationEdge(
                IF node.subtype_is_var /\ node.subtype \in DOMAIN subst
                    THEN subst[node.subtype] ELSE node.subtype,
                node.subtype_is_var,
                IF node.supertype_is_var /\ node.supertype \in DOMAIN subst
                    THEN subst[node.supertype] ELSE node.supertype,
                node.supertype_is_var)
      [] OTHER -> TypeErrorNode

apply_substitution(node, subst) ==
    CASE IsProposition(node) ->
            IF node.is_variable /\ node.identifier \in DOMAIN subst
            THEN Proposition(subst[node.identifier], FALSE)
            ELSE node
      [] IsSVOClause(node) ->
            SVOClause(
                IF node.subject_is_var /\ node.subject \in DOMAIN subst
                    THEN subst[node.subject] ELSE node.subject,
                node.subject_is_var /\ node.subject \notin DOMAIN subst,
                IF node.verb_is_var /\ node.verb \in DOMAIN subst
                    THEN subst[node.verb] ELSE node.verb,
                node.verb_is_var /\ node.verb \notin DOMAIN subst,
                IF node.object_is_var /\ node.object \in DOMAIN subst
                    THEN subst[node.object] ELSE node.object,
                node.object_is_var /\ node.object \notin DOMAIN subst)
      [] IsClassificationEdge(node) ->
            ClassificationEdge(
                IF node.subtype_is_var /\ node.subtype \in DOMAIN subst
                    THEN subst[node.subtype] ELSE node.subtype,
                node.subtype_is_var /\ node.subtype \notin DOMAIN subst,
                IF node.supertype_is_var /\ node.supertype \in DOMAIN subst
                    THEN subst[node.supertype] ELSE node.supertype,
                node.supertype_is_var /\ node.supertype \notin DOMAIN subst)
      [] OTHER -> TypeErrorNode

\* an unbound variable of the pattern is bound to its own name
_unify_proposition_binds_own_name(pattern, fact, subst) ==
    IF pattern.is_variable
    THEN IF pattern.identifier \in DOMAIN subst
         THEN IF subst[pattern.identifier] = fact.identifier THEN subst ELSE None
         ELSE Bind(subst, pattern.identifier, pattern.identifier)
    ELSE IF fact.is_variable
    THEN IF fact.identifier \in DOMAIN subst
         THEN IF subst[fact.identifier] = pattern.identifier THEN subst ELSE None
         ELSE Bind(subst, fact.identifier, pattern.identifier)
    ELSE IF pattern.identifier = fact.identifier THEN subst ELSE None

_unify_proposition(pattern, fact, subst) ==
    IF pattern.is_variable
    THEN IF pattern.identifier \in DOMAIN subst
         THEN IF subst[pattern.identifier] = fact.identifier THEN subst ELSE None
         ELSE Bind(subst, pattern.identifier, fact.identifier)
    ELSE IF fact.is_variable
    THEN IF fact.identifier \in DOMAIN subst
         THEN IF subst[fact.identifier] = pattern.identifier THEN subst ELSE None
         ELSE Bind(subst, fact.identifier, pattern.identifier)
    ELSE IF pattern.identifier = fact.identifier THEN subst ELSE None

\* every slot is unified from the incoming substitution and the three
\* results are put together, a later slot's binding replacing an earlier one
_unify_svo_clause_unthreaded(pattern, fact, subst) ==
    LET s1 == _unify_proposition(Proposition(pattern.subject, pattern.subject_is_var),
                                 Proposition(fact.subject, fact.subject_is_var), subst)
        s2 == _unify_proposition(Proposition(pattern.verb, pattern.verb_is_var),
                                 Proposition(fact.verb, fact.verb_is_var), subst)
        s3 == _unify_proposition(Proposition(pattern.object, pattern.object_is_var),
                                 Proposition(fact.object, fact.object_is_var), subst)
    IN  IF s1 = None \/ s2 = None \/ s3 = None THEN None ELSE s3 @@ s2 @@ s1

_unify_svo_clause(pattern, fact, subst) ==
    LET s1 == _unify_proposition(Proposition(pattern.subject, pattern.subject_is_var),
                                 Proposition(fact.subject, fact.subject_is_var), subst)
    IN  IF s1 = None THEN None ELSE
    LET s2 == _unify_proposition(Proposition(pattern.verb, pattern.verb_is_var),
                                 Proposition(fact.verb, fact.verb_is_var), s1)
    IN  IF s2 = None THEN None ELSE
        _unify_proposition(Proposition(pattern.object, pattern.object_is_var),
                           Proposition(fact.object, fact.object_is_var), s2)

_unify_classification_edge(pattern, fact, subst) ==
    LET s1 == _unify_proposition(Proposition(pattern.subtype, pattern.subtype_is_var),
                                 Proposition(fact.subtype, fact.subtype_is_var), subst)
    IN  IF s1 = None THEN None ELSE
        _unify_proposition(Proposition(pattern.supertype, pattern.supertype_is_var),
                           Proposition(fact.supertype, fact.supertype_is_var), s1)

\* a mismatch of the two variants is let through as a success
unify_mismatch_succeeds(pattern, fact, subst) ==
    LET p == apply_substitution(pattern, subst)
        f == apply_substitution(fact, subst)
    IN  IF p = TypeErrorNode \/ f = TypeErrorNode THEN TypeError
        ELSE IF p.variant # f.variant THEN subst
        ELSE CASE IsProposition(p) -> _unify_proposition(p, f, subst)
               [] IsSVOClause(p) -> _unify_svo_clause(p, f, subst)
               [] IsClassificationEdge(p) -> _unify_classification_edge(p, f, subst)

unify(pattern, fact, subst) ==
    LET p == apply_substitution(pattern, subst)
        f == apply_substitution(fact, subst)
    IN  IF p = TypeErrorNode \/ f = TypeErrorNode THEN TypeError
        ELSE IF p.variant # f.variant THEN None
        ELSE CASE IsProposition(p) -> _unify_proposition(p, f, subst)
               [] IsSVOClause(p) -> _unify_svo_clause(p, f, subst)
               [] IsClassificationEdge(p) -> _unify_classification_edge(p, f, subst)

(***************************************************************************)
(* compute_classification_closure.                                         *)
(***************************************************************************)
\* the names are compared and the variable flags are not looked at
JoinsIgnoringFlags(edge1, edge2) == edge1.supertype = edge2.subtype

\* the condition under which edge1 and edge2 give a transitive edge
Joins(edge1, edge2) ==
    /\ ~edge1.supertype_is_var
    /\ ~edge2.subtype_is_var
    /\ edge1.supertype = edge2.subtype

\* the derived edge starts at the joining name instead of edge1's subtype
TransitiveEdgeFromJoin(edge1, edge2) ==
    ClassificationEdge(edge1.supertype, edge1.supertype_is_var,
                       edge2.supertype, edge2.supertype_is_var)

\* the transitive edge built from edge1 and edge2
TransitiveEdge(edge1, edge2) ==
    ClassificationEdge(edge1.subtype, edge1.subtype_is_var,
                       edge2.supertype, edge2.supertype_is_var)

\* new_edges after one execution of the body of the while loop
NewEdges(cl) ==
    {TransitiveEdge(edge1, edge2) :
        <<edge1, edge2>> \in {pair \in cl \X cl : Joins(pair[1], pair[2])}} \ cl

\* the loop stops after its first pass
ChangedSinglePass(cl) == FALSE

\* whether the pass over cl set changed = True (some new_edge was not in closure)
ChangedAfterPass(cl) == NewEdges(cl) # {}

\* the while loop, from the closure it starts a pass with
RECURSIVE ClosureLoop(_)
ClosureLoop(cl) ==
    IF ChangedAfterPass(cl) THEN ClosureLoop(cl \cup NewEdges(cl)) ELSE cl \cup NewEdges(cl)

\* only the derived edges are returned
compute_classification_closure_derived_only(E) == ClosureLoop(E) \ E

compute_classification_closure(E) == ClosureLoop(E)

(***************************************************************************)
(* Iteration over a Python set.  The order in which a set is enumerated is *)
(* not fixed by the language: a loop over a set S runs over one of the     *)
(* sequences of Enumerations(S): any element of S comes first in one of    *)
(* them, and one of them is another one read backwards.                    *)
(***************************************************************************)
RECURSIVE SomeSeq(_)
SomeSeq(S) ==
    IF S = {} THEN <<>>
    ELSE LET x == CHOOSE y \in S : TRUE IN <<x>> \o SomeSeq(S \ {x})

Reverse(seq) == [i \in 1..Len(seq) |-> seq[Len(seq) + 1 - i]]

Enumerations(S) ==
    IF S = {} THEN {<<>>}
    ELSE {<<x>> \o SomeSeq(S \ {x}) : x \in S} \cup {Reverse(SomeSeq(S))}

(***************************************************************************)
(* apply_rule.  order is the sequence in which context.facts is            *)
(* enumerated; F is context.facts.                                         *)
(***************************************************************************)
\* only the first match of a premise is kept
MatchesFirstOnly(premise, order) ==
    LET matches == SelectSeq([i \in 1..Len(order) |->
                                <<order[i], unify(premise, order[i], EmptySubst)>>],
                             LAMBDA m : m[2] # None)
    IN  IF matches = <<>> THEN <<>> ELSE <<matches[1]>>

\* matches of one premise: the (fact, subst) pairs, in enumeration order
Matches(premise, order) ==
    SelectSeq([i \in 1..Len(order) |-> <<order[i], unify(premise, order[i], EmptySubst)>>],
              LAMBDA m : m[2] # None)

premise_matches(rule, order) ==
    [i \in 1..Len(rule.premises) |-> Matches(rule.premises[i], order)]

\* itertools.product(*premise_matches): one match per premise
Product(pm) ==
    LET longest == IF DOMAIN pm = {} THEN 0
                   ELSE CHOOSE n \in {Len(pm[i]) : i \in DOMAIN pm} :
                            \A i \in DOMAIN pm : Len(pm[i]) <= n
    IN  {[i \in DOMAIN pm |-> pm[i][c[i]]] :
            c \in {d \in [DOMAIN pm -> 1..longest] : \A i \in DOMAIN pm : d[i] <= Len(pm[i])}}

\* a later binding of a variable replaces the earlier one
RECURSIVE MergeOverwriting(_, _, _)
MergeOverwriting(combination, i, combined_subst) ==
    IF i > Len(combination) THEN combined_subst
    ELSE MergeOverwriting(combination, i + 1, combination[i][2] @@ combined_subst)

\* the break on an inconsistent binding leaves the loop with valid still
\* True: the bindings merged so far reach the conclusion
RECURSIVE MergeSubstsBreakKeepsValid(_, _, _)
MergeSubstsBreakKeepsValid(combination, i, combined_subst) ==
    IF i > Len(combination) THEN combined_subst
    ELSE LET subst == combination[i][2]
         IN  IF \E var \in DOMAIN subst \cap DOMAIN combined_subst :
                    combined_subst[var] # subst[var]
             THEN combined_subst
             ELSE MergeSubstsBreakKeepsValid(combination, i + 1, combined_subst @@ subst)

\* the merge of the substitutions of a combination, from its i-th element on;
\* None when valid has become False
RECURSIVE MergeSubsts(_, _, _)
MergeSubsts(combination, i, combined_subst) ==
    IF i > Len(combination) THEN combined_subst
    ELSE LET subst == combination[i][2]
         IN  IF \E var \in DOMAIN subst \cap DOMAIN combined_subst :
                    combined_subst[var] # subst[var]
             THEN None
             ELSE MergeSubsts(combination, i + 1, combined_subst @@ subst)

\* every derived fact counts as new
IsNewFactAlways(derived_fact, F) == TRUE

\* "if derived_fact not in context.facts"
IsNewFact(derived_fact, F) == derived_fact \notin F

apply_rule(rule, F, order) ==
    LET pm == premise_matches(rule, order)
    IN  IF \E i \in DOMAIN pm : Len(pm[i]) = 0 THEN {}
        ELSE LET merged == {MergeSubsts(c, 1, EmptySubst) : c \in Product(pm)}
                 derived == {apply_substitution(rule.conclusion, combined_subst) :
                                combined_subst \in merged \ {None}}
             IN  {derived_fact \in derived : IsNewFact(derived_fact, F)}

(***************************************************************************)
(* fixpoint: one step for lines 347-353 of a round (closure) and one for   *)
(* lines 356-371 (rules).                                                  *)
(***************************************************************************)
ClassEdgesOf(F) == {f \in F : IsClassificationEdge(f)}

\* new_facts after the loop over context.rules, from the i-th rule on
RECURSIVE CollectNewFacts(_, _, _, _, _)
CollectNewFacts(rs, i, F, order, new_facts) ==
    IF i > Len(rs) THEN new_facts
    ELSE CollectNewFacts(rs, i + 1, F, order, new_facts \cup apply_rule(rs[i], F, order))

\* the loop is left although one new fact was derived
FixpointReachedOffByOne(new_facts) == Cardinality(new_facts) <= 1

\* "if len(new_facts) == 0: break"
FixpointReached(new_facts) == Cardinality(new_facts) = 0

\* the new facts that are not added to context.classification_edges
NoNewClassificationEdges(new_facts) == {}

\* the new facts added to context.classification_edges
NewClassificationEdges(new_facts) == {fact \in new_facts : IsClassificationEdge(fact)}

FixpointClosure ==
    /\ pc = "fixpoint_closure"
    /\ LET closed_edges == compute_classification_closure(classification_edges)
           non_classification_facts == {f \in facts : ~IsClassificationEdge(f)}
       IN  /\ facts' = non_classification_facts \cup closed_edges
           /\ classification_edges' = closed_edges
    /\ pc' = "fixpoint_rules"
    /\ UNCHANGED <<parser, raised, call, ast, rules, verb_lexicon, queries, output, entry, calls,
                   edges, closure, changed>>

FixpointRules ==
    /\ pc = "fixpoint_rules"
    /\ \E order \in Enumerations(facts) :
        LET new_facts == CollectNewFacts(rules, 1, facts, order, {})
        IN  IF FixpointReached(new_facts)
            THEN /\ pc' = "fixpoint_returned"
                 /\ UNCHANGED <<facts, classification_edges>>
            ELSE /\ facts' = facts \cup new_facts
                 /\ classification_edges' =
                        classification_edges \cup NewClassificationEdges(new_facts)
                 /\ pc' = "fixpoint_closure"
    /\ UNCHANGED <<parser, raised, call, ast, rules, verb_lexicon, queries, output, entry, calls,
                   edges, closure, changed>>

(***************************************************************************)
(* evaluate_query.                                                         *)
(***************************************************************************)
ExpressionOf(query) == IF query.variant = "Query" THEN query.expression ELSE query

\* the answer is decided by the first fact alone
RECURSIVE QueryLoopFirstFactOnly(_, _, _)
QueryLoopFirstFactOnly(expression, order, i) ==
    IF i > Len(order) THEN "?"
    ELSE IF unify(expression, order[i], EmptySubst) # None THEN "T" ELSE "?"

\* the loop over context.facts, from the i-th fact on
RECURSIVE QueryLoop(_, _, _)
QueryLoop(expression, order, i) ==
    IF i > Len(order) THEN "?"
    ELSE IF unify(expression, order[i], EmptySubst) # None THEN "T"
    ELSE QueryLoop(expression, order, i + 1)

evaluate_query(query, order) == QueryLoop(ExpressionOf(query), order, 1)

(***************************************************************************)
(* Inputs of the closure: edges over three constants and one variable      *)
(* name.  A slot flagged variable holds a name that starts with the        *)
(* marker (the parser flags a slot by its marker); a slot that holds such  *)
(* a name with the flag cleared is what a substitution can leave behind.   *)
(***************************************************************************)
Slots == {<<"A", FALSE>>, <<"B", FALSE>>, <<"C", FALSE>>, <<"qiX", TRUE>>, <<"qiX", FALSE>>}

EdgePool == {ClassificationEdge(a[1], a[2], b[1], b[2]) : <<a, b>> \in Slots \X Slots}

\* the subsets of S with at most n elements
RECURSIVE SubsetsUpTo(_, _)
SubsetsUpTo(S, n) ==
    IF n = 0 THEN {{}}
    ELSE LET smaller == SubsetsUpTo(S, n - 1)
         IN  smaller \cup {T \cup {x} : <<T, x>> \in smaller \X S}

\* no parser has been constructed and nothing was raised
NoParser ==
    /\ parser = [tokens |-> <<>>, position |-> 0, verb_lexicon |-> {}]
    /\ raised = ""

\* no library call of unify or apply_substitution is under way
NoCall == call = [function |-> ""]

\* the values of the context variables while no context exists
NoContext ==
    /\ ast = <<>>
    /\ facts = {}
    /\ classification_edges = {}
    /\ rules = <<>>
    /\ verb_lexicon = {}
    /\ queries = <<>>
    /\ output = <<>>

(***************************************************************************)
(* The closure as a state machine: one step per pass of the while loop,    *)
(* called a second time on its own result.                                 *)
(***************************************************************************)
ClosureInit ==
    /\ NoParser
    /\ NoCall
    /\ NoContext
    /\ pc = "closure_call"
    /\ edges \in SubsetsUpTo(EdgePool, MaxEdges)
    /\ entry = edges
    /\ calls = 1
    /\ closure = {}
    /\ changed = FALSE

\* closure = set(edges); changed = True
ClosureEnter ==
    /\ pc = "closure_call"
    /\ closure' = edges
    /\ changed' = TRUE
    /\ pc' = "closure_loop"
    /\ UNCHANGED <<parser, raised, call, ast, facts, classification_edges, rules, verb_lexicon, queries,
                   output, entry, calls, edges>>

\* one execution of the body of "while changed"
ClosurePass ==
    /\ pc = "closure_loop"
    /\ changed
    /\ changed' = ChangedAfterPass(closure)
    /\ closure' = closure \cup NewEdges(closure)
    /\ UNCHANGED <<pc, parser, raised, call, ast, facts, classification_edges, rules, verb_lexicon, queries,
                   output, entry, calls, edges>>

\* the loop is left and closure is returned
ClosureReturn ==
    /\ pc = "closure_loop"
    /\ ~changed
    /\ pc' = "closure_returned"
    /\ UNCHANGED <<parser, raised, call, ast, facts, classification_edges, rules, verb_lexicon, queries,
                   output, entry, calls, edges, closure, changed>>

\* the caller hands the result back to compute_classification_closure
ClosureAgain ==
    /\ pc = "closure_returned"
    /\ calls < MaxCalls
    /\ edges' = closure
    /\ calls' = calls + 1
    /\ pc' = "closure_call"
    /\ UNCHANGED <<parser, raised, call, ast, facts, classification_edges, rules, verb_lexicon, queries,
                   output, entry, closure, changed>>

ClosureNext == ClosureEnter \/ ClosurePass \/ ClosureReturn \/ ClosureAgain

SpecClosure == ClosureInit /\ [][ClosureNext]_vars

(***************************************************************************)
(* Claims about the closure.                                               *)
(***************************************************************************)
\* S contains A-under-C whenever it contains A-under-B and B-under-C whose
\* joining name is equal and flagged non-variable in both
TransitivelyClosed(S) ==
    \A e1 \in S : \A e2 \in S :
        (e1.supertype = e2.subtype /\ e1.supertype_is_var = FALSE /\ e2.subtype_is_var = FALSE)
            => [variant |-> "ClassificationEdge",
                subtype |-> e1.subtype, subtype_is_var |-> e1.subtype_is_var,
                supertype |-> e2.supertype, supertype_is_var |-> e2.supertype_is_var] \in S

\* R is the least transitively closed set that contains E
LeastClosedSuperset(E, R) ==
    /\ E \subseteq R
    /\ TransitivelyClosed(R)
    /\ \A T \in SUBSET (R \ E) : TransitivelyClosed(E \cup T) => T = R \ E

\* C9: what compute_classification_closure(E) returns is the least set that
\* contains E and is closed under joining A-under-B with B-under-C on a name B
\* that is equal and flagged non-variable in both edges, the derived edge
\* carrying A's subtype flag and C's supertype flag; it is also what the
\* fixpoint driver gets from the function.
C9_ClosureIsLeastClosedSet ==
    pc = "closure_returned" =>
        /\ LeastClosedSuperset(edges, closure)
        /\ compute_classification_closure(edges) = closure

\* C9 witness: a returned closure that derived an edge through a concrete
\* joining name and left alone two edges whose joining slot is a variable.
C9_Witness ==
    /\ pc = "closure_returned"
    /\ calls = 1
    /\ edges = {ClassificationEdge("A", FALSE, "B", FALSE),
                ClassificationEdge("B", FALSE, "qiX", TRUE),
                ClassificationEdge("qiX", TRUE, "C", FALSE)}
    /\ ClassificationEdge("A", FALSE, "qiX", TRUE) \in closure
    /\ ClassificationEdge("B", FALSE, "C", FALSE) \notin closure

\* C10: the closure of a closure is that closure: the second call, whose
\* argument is the first call's result, returns its argument.
C10_ClosureIdempotent ==
    (pc = "closure_returned" /\ calls >= 2) => closure = edges

\* C10 witness: a second call has returned, after a first call that added edges.
C10_Witness ==
    /\ pc = "closure_returned"
    /\ calls = 2
    /\ edges # entry
    /\ Cardinality(edges) >= Cardinality(entry) + 3

(***************************************************************************)
(* Contexts handed to fixpoint by a library caller: facts and rules over   *)
(* a few names, with cyclic classification edges, a rule that re-derives   *)
(* its own premise, rules that derive and that consume classification      *)
(* edges, rules whose premises share variables, and a fact with a variable.*)
(***************************************************************************)
PropA == Proposition("A", FALSE)
PropB == Proposition("B", FALSE)
PropQ == Proposition("Q", FALSE)
VarFactY == Proposition("qiY", TRUE)
EdgeAB == ClassificationEdge("A", FALSE, "B", FALSE)
EdgeBC == ClassificationEdge("B", FALSE, "C", FALSE)
EdgeCA == ClassificationEdge("C", FALSE, "A", FALSE)
EdgeAC == ClassificationEdge("A", FALSE, "C", FALSE)
SvoAB == SVOClause("A", FALSE, "v", FALSE, "B", FALSE)
SvoBC == SVOClause("B", FALSE, "v", FALSE, "C", FALSE)

FactPool == {PropA, VarFactY, EdgeAB, EdgeCA, SvoAB, SvoBC}

RuleSelf == Rule(<<Proposition("qiX", TRUE)>>, Proposition("qiX", TRUE))
RuleToEdge == Rule(<<PropA>>, EdgeBC)
RuleFromEdge == Rule(<<EdgeAC>>, PropQ)
RuleSvoTrans ==
    Rule(<<SVOClause("qiX", TRUE, "v", FALSE, "qiY", TRUE),
           SVOClause("qiY", TRUE, "v", FALSE, "qiZ", TRUE)>>,
         SVOClause("qiX", TRUE, "v", FALSE, "qiZ", TRUE))
RuleInherit ==
    Rule(<<ClassificationEdge("qiX", TRUE, "qiY", TRUE), Proposition("qiX", TRUE)>>,
         Proposition("qiY", TRUE))

RulePool == {RuleSelf, RuleToEdge, RuleFromEdge, RuleSvoTrans, RuleInherit}

\* the lists of at most n different elements of S
RECURSIVE ListsUpTo(_, _)
ListsUpTo(S, n) ==
    IF n = 0 THEN {<<>>}
    ELSE LET shorter == ListsUpTo(S, n - 1)
         IN  shorter \cup {Append(l, x) : <<l, x>> \in
                            {lx \in shorter \X S : \A i \in DOMAIN lx[1] : lx[1][i] # lx[2]}}

\* the variables of the closure's state machine while it is not running
NoClosureCall ==
    /\ edges = {}
    /\ closure = {}
    /\ changed = FALSE

(***************************************************************************)
(* A library caller: builds a Context, calls fixpoint, and may call it     *)
(* again on the context it returned.                                       *)
(***************************************************************************)
FixpointInit ==
    /\ NoParser
    /\ NoCall
    /\ NoClosureCall
    /\ NoContext
    /\ entry = [facts |-> {}, classification_edges |-> {}]
    /\ calls = 0
    /\ pc = "caller"

\* context = Context(facts=..., classification_edges=..., rules=..., verb_lexicon=set())
\* followed by the first call fixpoint(context)
BuildContext ==
    /\ pc = "caller"
    /\ facts' \in SubsetsUpTo(FactPool, MaxFacts)
    /\ classification_edges' \in {ClassEdgesOf(facts'), {}}
    /\ rules' \in ListsUpTo(RulePool, MaxRules)
    /\ entry' = [facts |-> facts', classification_edges |-> classification_edges']
    /\ calls' = 1
    /\ pc' = "fixpoint_closure"
    /\ UNCHANGED <<parser, raised, call, ast, verb_lexicon, queries, output, edges, closure, changed>>

\* fixpoint(context) on the context a call of fixpoint returned
FixpointAgain ==
    /\ pc = "fixpoint_returned"
    /\ calls < MaxCalls
    /\ calls' = calls + 1
    /\ pc' = "fixpoint_closure"
    /\ UNCHANGED <<parser, raised, call, ast, facts, classification_edges, rules, verb_lexicon, queries,
                   output, entry, edges, closure, changed>>

FixpointNext == BuildContext \/ FixpointClosure \/ FixpointRules \/ FixpointAgain

SpecFixpoint == FixpointInit /\ [][FixpointNext]_vars

\* a step of the driver: it leaves the position it is at
DriverStep ==
    /\ pc \in {"fixpoint_closure", "fixpoint_rules"}
    /\ pc' \in {"fixpoint_closure", "fixpoint_rules", "fixpoint_returned"}
    /\ pc' # pc

\* the step of the driver's position can always be taken: neither half of a
\* round blocks
DriverNeverBlocks ==
    pc \in {"fixpoint_closure", "fixpoint_rules"} => ENABLED (FixpointClosure \/ FixpointRules)

\* The interpreter is one thread that runs to completion: a driver that is
\* inside a round takes the step of its position (DriverNeverBlocks: there
\* always is one).
SpecFixpointFair == SpecFixpoint /\ WF_pc(DriverStep)

(***************************************************************************)
(* A library caller of evaluate_query: builds a context by hand and asks   *)
(* queries of it.                                                          *)
(***************************************************************************)
QueryPool ==
    {Query(PropA), Query(Proposition("qiX", TRUE)),
     Query(SVOClause("qiX", TRUE, "v", FALSE, "C", FALSE)),
     Query(ClassificationEdge("C", FALSE, "qiX", TRUE)), PropQ}

QueryInit ==
    /\ NoParser
    /\ NoCall
    /\ NoClosureCall
    /\ NoContext
    /\ entry = [facts |-> {}, classification_edges |-> {}]
    /\ calls = 0
    /\ pc = "caller"

\* context = Context(facts=..., classification_edges=..., rules=[], verb_lexicon=set())
BuildQueryContext ==
    /\ pc = "caller"
    /\ facts' \in SubsetsUpTo(FactPool, MaxFacts)
    /\ classification_edges' = ClassEdgesOf(facts')
    /\ entry' = [facts |-> facts', classification_edges |-> classification_edges']
    /\ pc' = "query"
    /\ UNCHANGED <<parser, raised, call, ast, rules, verb_lexicon, queries, output, calls, edges, closure, changed>>

\* result = evaluate_query(query, context)
LibraryQuery ==
    /\ pc = "query"
    /\ Len(queries) < MaxQueries
    /\ \E query \in QueryPool : \E order \in Enumerations(facts) :
        /\ queries' = Append(queries, query)
        /\ output' = Append(output, evaluate_query(query, order))
    /\ UNCHANGED <<pc, parser, raised, call, ast, facts, classification_edges, rules, verb_lexicon,
                   entry, calls, edges, closure, changed>>

QueryNext == BuildQueryContext \/ LibraryQuery

SpecQuery == QueryInit /\ [][QueryNext]_vars

(***************************************************************************)
(* eval_program.                                                           *)
(***************************************************************************)
IsVerbDeclaration(node) == node.variant = "VerbDeclaration"
IsQuery(node) == node.variant = "Query"
\* no statement is taken for a rule, so that rules fall through to the
\* assertions
IsRuleMissing(node) == FALSE

IsRule(node) == node.variant = "Rule"

VerbDeclarationsOf(program) == SelectSeq(program, IsVerbDeclaration)
QueriesOf(program) == SelectSeq(program, IsQuery)
RulesOf(program) == SelectSeq(program, IsRule)

\* only the assertions that stand before the first query are kept
AssertionsBeforeFirstQuery(program) ==
    LET firstQuery == IF \E i \in DOMAIN program : IsQuery(program[i])
                      THEN CHOOSE i \in DOMAIN program :
                              /\ IsQuery(program[i])
                              /\ \A j \in 1..(i - 1) : ~IsQuery(program[j])
                      ELSE Len(program) + 1
    IN  SelectSeq(SubSeq(program, 1, firstQuery - 1),
                  LAMBDA node : ~IsVerbDeclaration(node) /\ ~IsQuery(node) /\ ~IsRule(node))

\* the else branch of the bucketing loop
AssertionsOf(program) ==
    SelectSeq(program, LAMBDA node : ~IsVerbDeclaration(node) /\ ~IsQuery(node) /\ ~IsRule(node))

SetOf(list) == {list[i] : i \in DOMAIN list}

StatementPool ==
    {VerbDeclaration("v"), EdgeAB, PropA, RuleToEdge, RuleFromEdge, Query(PropQ), Query(EdgeAC)}

Init ==
    /\ NoParser
    /\ NoCall
    /\ NoClosureCall
    /\ ast \in ListsUpTo(StatementPool, MaxStatements)
    /\ facts = {}
    /\ classification_edges = {}
    /\ rules = <<>>
    /\ verb_lexicon = {}
    /\ queries = <<>>
    /\ output = <<>>
    /\ entry = [facts |-> {}, classification_edges |-> {}]
    /\ calls = 0
    /\ pc = "eval_program"

\* lines 434-468: the statements are bucketed, the context is built and
\* fixpoint is called
EvalProgramBuild ==
    /\ pc = "eval_program"
    /\ verb_lexicon' = {verb_decl.verb : verb_decl \in SetOf(VerbDeclarationsOf(ast))}
    /\ facts' = SetOf(AssertionsOf(ast))
    /\ classification_edges' = {f \in facts' : IsClassificationEdge(f)}
    /\ rules' = RulesOf(ast)
    /\ queries' = QueriesOf(ast)
    /\ entry' = [facts |-> facts', classification_edges |-> classification_edges']
    /\ calls' = 1
    /\ pc' = "fixpoint_closure"
    /\ UNCHANGED <<parser, raised, call, ast, output, edges, closure, changed>>

\* lines 471-473: the next query is evaluated and its result printed
PrintQuery ==
    /\ pc = "fixpoint_returned"
    /\ Len(output) < Len(queries)
    /\ \E order \in Enumerations(facts) :
        output' = Append(output, evaluate_query(queries[Len(output) + 1], order))
    /\ UNCHANGED <<pc, parser, raised, call, ast, facts, classification_edges, rules, verb_lexicon, queries,
                   entry, calls, edges, closure, changed>>

\* the loop over the queries is over and eval_program returns
EvalProgramReturn ==
    /\ pc = "fixpoint_returned"
    /\ Len(output) = Len(queries)
    /\ pc' = "done"
    /\ UNCHANGED <<parser, raised, call, ast, facts, classification_edges, rules, verb_lexicon, queries,
                   output, entry, calls, edges, closure, changed>>

Next == EvalProgramBuild \/ FixpointClosure \/ FixpointRules \/ PrintQuery \/ EvalProgramReturn

Spec == Init /\ [][Next]_vars

(***************************************************************************)
(* Claims about the rule engine and the fixpoint driver.                   *)
(***************************************************************************)
\* the premises of rule that no fact of F unifies with
UnmatchedPremises(rule, F) ==
    {k \in DOMAIN rule.premises :
        \A f \in F : unify(rule.premises[k], f, EmptySubst) = None}

\* the instances of the conclusion of rule under every choice of one fact of F
\* per premise whose bindings agree on every shared variable, F's members left out
JointInstances(rule, F) ==
    LET n == Len(rule.premises)
        binding(ch, k) == unify(rule.premises[k], ch[k], EmptySubst)
        choices == {ch \in [1..n -> F] : \A k \in 1..n : binding(ch, k) # None}
        agree(ch) == \A k \in 1..n : \A l \in 1..n :
                        \A v \in DOMAIN binding(ch, k) \cap DOMAIN binding(ch, l) :
                            binding(ch, k)[v] = binding(ch, l)[v]
        joint(ch) == [v \in UNION {DOMAIN binding(ch, k) : k \in 1..n} |->
                        binding(ch, CHOOSE k \in 1..n : v \in DOMAIN binding(ch, k))[v]]
    IN  {apply_substitution(rule.conclusion, joint(ch)) : ch \in {c \in choices : agree(c)}} \ F

\* C8: apply_rule returns exactly the instances of the conclusion under the
\* consistent joint substitutions of one unifying fact per premise that are
\* not yet facts, whatever the enumeration order, and the empty set when a
\* premise unifies with no fact.
C8_ApplyRuleIsConsistentJoin ==
    pc = "fixpoint_rules" =>
        \A i \in DOMAIN rules :
            LET instances == JointInstances(rules[i], facts)
                unmatched == UnmatchedPremises(rules[i], facts)
            IN  \A order \in Enumerations(facts) :
                    LET derived == apply_rule(rules[i], facts, order)
                    IN  /\ derived = instances
                        /\ unmatched # {} => derived = {}

\* C8 witness: the two-premise rule meets two facts that agree on the shared
\* variable in one combination and disagree in the others, and derives a fact.
C8_Witness ==
    /\ pc = "fixpoint_rules"
    /\ rules = <<RuleSvoTrans>>
    /\ facts = {SvoAB, SvoBC}
    /\ \E order \in Enumerations(facts) :
          apply_rule(rules[1], facts, order) = {SVOClause("A", FALSE, "v", FALSE, "C", FALSE)}

\* the fact set fixpoint ends with, computed from the sets alone: no list of
\* rules and no enumeration of facts enters it
RECURSIVE OrderFreeFixpoint(_, _, _)
OrderFreeFixpoint(F, CE, RS) ==
    LET closed == compute_classification_closure(CE)
        F1 == {f \in F : f.variant # "ClassificationEdge"} \cup closed
        new == UNION {JointInstances(r, F1) : r \in RS}
    IN  IF new = {} THEN F1
        ELSE OrderFreeFixpoint(F1 \cup new,
                               closed \cup {f \in new : f.variant = "ClassificationEdge"}, RS)

\* C1: every call of fixpoint returns: from the start of its first round it
\* reaches, after finitely many rounds, the round that derives nothing.
C1_FixpointTerminates == (pc = "fixpoint_closure") ~> (pc = "fixpoint_returned")

\* C1 witness: fixpoint has returned for a context with a rule that re-derives
\* its own premise and with a cycle of classification edges.
C1_Witness ==
    /\ pc = "fixpoint_returned"
    /\ \E i \in DOMAIN rules : rules[i] = RuleSelf
    /\ {EdgeAB, EdgeBC, EdgeCA, ClassificationEdge("A", FALSE, "A", FALSE)} \subseteq facts

\* C2: when fixpoint returns, the closure of the classification edges of the
\* fact set adds no edge and apply_rule returns the empty set for every rule.
C2_ReturnedFactSetIsStable ==
    pc = "fixpoint_returned" =>
        /\ compute_classification_closure(ClassEdgesOf(facts)) = ClassEdgesOf(facts)
        /\ \A i \in DOMAIN rules : \A order \in Enumerations(facts) :
                apply_rule(rules[i], facts, order) = {}

\* C2 witness: a first call has returned after rounds that derived facts,
\* classification edges among them.
C2_Witness ==
    /\ pc = "fixpoint_returned"
    /\ calls = 1
    /\ rules # <<>>
    /\ ClassEdgesOf(facts) \ entry.facts # {}
    /\ (facts \ ClassEdgesOf(facts)) \ entry.facts # {}

\* C3: the fact set fixpoint returns is the one determined by the entry facts,
\* the entry classification edges and the set of rules, for every order of the
\* rule list and every enumeration order of the facts in every round.
C3_FinalFactsOrderIndependent ==
    pc = "fixpoint_returned" =>
        facts = OrderFreeFixpoint(entry.facts, entry.classification_edges,
                                  {rules[i] : i \in DOMAIN rules})

\* C3 witness: fixpoint has returned for a list of two rules that both fired.
C3_Witness ==
    /\ pc = "fixpoint_returned"
    /\ rules = <<RuleFromEdge, RuleToEdge>>
    /\ {EdgeBC, PropQ} \subseteq facts \ entry.facts

\* C4: a call of fixpoint on a context that fixpoint returned changes neither
\* facts nor classification_edges, in any of its steps.
C4_FixpointIdempotent ==
    [][calls >= 2 => (facts' = facts /\ classification_edges' = classification_edges)]_vars

\* C4 witness: a second call has returned on a context whose first call
\* derived facts.
C4_Witness ==
    /\ pc = "fixpoint_returned"
    /\ calls = 2
    /\ Cardinality(facts) >= Cardinality(entry.facts) + 2

(***************************************************************************)
(* Claims about the query evaluator and eval_program.                      *)
(***************************************************************************)
\* the symbol for expression over the fact set F: derivable iff some fact
\* unifies with it from the empty substitution
Answer(expression, F) ==
    IF \E f \in F : unify(expression, f, EmptySubst) # None THEN "T" ELSE "?"

\* C5: evaluate_query returns the derivable symbol iff at least one fact of
\* the fact set unifies with the query expression from the empty
\* substitution, and the other symbol otherwise (so for the empty fact set),
\* whatever the order in which the facts are tried.
C5_QueryAnswerIsExistential ==
    pc = "query" =>
        \A k \in DOMAIN output :
            /\ output[k] \in {"T", "?"}
            /\ output[k] = "T" <=>
                 \E f \in facts :
                    unify(IF queries[k].variant = "Query" THEN queries[k].expression
                          ELSE queries[k], f, EmptySubst) # None

\* C5 witness: a query with a variable was answered derivable over three
\* facts of which exactly one unifies with it.
C5_Witness ==
    /\ pc = "query"
    /\ facts = {PropA, SvoAB, SvoBC}
    /\ queries = <<Query(SVOClause("qiX", TRUE, "v", FALSE, "C", FALSE))>>
    /\ output = <<"T">>

\* the positions of the queries in the program, and the k-th of them
QueryPositions == {i \in DOMAIN ast : ast[i].variant = "Query"}
KthQueryPosition(k) ==
    CHOOSE i \in QueryPositions : Cardinality({j \in QueryPositions : j <= i}) = k

\* the fact set after fixpoint over all assertions and rules of the program
ProgramFixpoint ==
    LET asserted == {ast[i] : i \in {j \in DOMAIN ast :
                        ast[j].variant \notin {"VerbDeclaration", "Query", "Rule"}}}
        ruleset == {ast[i] : i \in {j \in DOMAIN ast : ast[j].variant = "Rule"}}
    IN  OrderFreeFixpoint(asserted, {f \in asserted : f.variant = "ClassificationEdge"},
                          ruleset)

\* C6: eval_program prints nothing before fixpoint has returned, then one line
\* per query in source order, each the answer over the fixpoint of all the
\* assertions and rules of the program wherever the query stands; when it
\* returns it has printed exactly as many lines as the program has queries.
C6_OneLinePerQueryInOrder ==
    /\ Len(output) <= Cardinality(QueryPositions)
    /\ pc \in {"eval_program", "fixpoint_closure", "fixpoint_rules"} => output = <<>>
    /\ pc = "done" => Len(output) = Cardinality(QueryPositions)
    /\ \A k \in DOMAIN output :
          output[k] = Answer(ast[KthQueryPosition(k)].expression, ProgramFixpoint)

\* C6 witness: a program whose first query stands before the facts and the
\* rule that make it derivable, and whose second query is not derivable.
C6_Witness ==
    /\ pc = "done"
    /\ ast = <<Query(EdgeAC), EdgeAB, RuleToEdge, PropA, Query(PropQ)>>
    /\ output = <<"T", "?">>

\* C7, in the rounds: when the rules of a round are applied, the fact set
\* holds the closure of the classification edges (transitively closed, and
\* the same set as classification_edges); after the last round the fact set
\* is transitively closed and no rule has an underived instance, and every
\* query whose expression is a fact was answered derivable.
C7_RoundState ==
    /\ pc = "fixpoint_rules" =>
          /\ TransitivelyClosed({f \in facts : f.variant = "ClassificationEdge"})
          /\ {f \in facts : f.variant = "ClassificationEdge"} = classification_edges
    /\ pc \in {"fixpoint_returned", "done"} =>
          /\ TransitivelyClosed({f \in facts : f.variant = "ClassificationEdge"})
          /\ \A i \in DOMAIN rules : JointInstances(rules[i], facts) = {}
          /\ \A k \in DOMAIN output : queries[k].expression \in facts => output[k] = "T"

\* C7, between the rounds: a classification edge that the rules of a round
\* derive is in classification_edges, the closure's input, when the next
\* round starts.
C7_RoundStep ==
    (pc = "fixpoint_rules" /\ pc' = "fixpoint_closure") =>
        /\ facts' # facts
        /\ \A f \in facts' \ facts :
              f.variant = "ClassificationEdge" => f \in classification_edges'

\* C7: a query derivable only through a chain that alternates closure and
\* rules succeeds: closure edges are there for the rules of the same round,
\* rule-derived edges are closure input in the next round, and the final
\* fact set holds every consequence.
C7_AlternatingChainDerives == []C7_RoundState /\ [][C7_RoundStep]_vars

\* C7 witness: Q follows from A-under-C, which the closure derives from
\* A-under-B and from B-under-C, which a rule derives from A; the query for Q
\* was answered derivable.
C7_Witness ==
    /\ pc = "done"
    /\ ast = <<EdgeAB, PropA, RuleFromEdge, RuleToEdge, Query(PropQ)>>
    /\ PropQ \in facts
    /\ output = <<"T">>

(***************************************************************************)
(* The closure on chains and cycles of concrete edges                      *)
(* (tests/test_classification_unit.py: test_cycle, test_long_chain).       *)
(***************************************************************************)
ChainNames == {"A", "B", "C", "D", "E", "F"}

ConcreteEdge(a, b) == ClassificationEdge(a, FALSE, b, FALSE)

\* the edges path[1] -> path[2] -> ... -> path[Len(path)]
ChainEdges(path) == {ConcreteEdge(path[i], path[i + 1]) : i \in 1..(Len(path) - 1)}

\* the chain of path, closed by the edge from its last name to its first
CycleEdges(path) == ChainEdges(path) \cup {ConcreteEdge(path[Len(path)], path[1])}

\* the name sequences of the acyclic simple chains of 1..MaxChain edges
ChainPaths == {path \in ListsUpTo(ChainNames, MaxChain + 1) : Len(path) >= 2}

\* the name sequences of the cycles of 1..MaxChain edges
CyclePaths == {path \in ListsUpTo(ChainNames, MaxChain) : Len(path) >= 1}

ChainInit ==
    /\ NoParser
    /\ NoCall
    /\ NoContext
    /\ pc = "closure_call"
    /\ edges \in {ChainEdges(path) : path \in ChainPaths}
                    \cup {CycleEdges(path) : path \in CyclePaths}
    /\ entry = edges
    /\ calls = 1
    /\ closure = {}
    /\ changed = FALSE

SpecChain == ChainInit /\ [][ClosureNext]_vars

\* compute_classification_closure is straight-line code around one loop: a
\* call that is inside the function takes its next step.
SpecChainFair == SpecChain /\ WF_vars(ClosureEnter \/ ClosurePass \/ ClosureReturn)

\* what the closure returned for the chain or the cycle it was entered with
C11_Counts ==
    pc = "closure_returned" =>
        /\ \A path \in ChainPaths :
            entry = ChainEdges(path) =>
                LET n == Len(path) - 1
                IN  /\ Cardinality(entry) = n
                    /\ entry \subseteq closure
                    /\ Cardinality(closure \ entry) = (n * (n - 1)) \div 2
                    /\ Cardinality(closure) = n + (n * (n - 1)) \div 2
        /\ \A path \in CyclePaths :
            entry = CycleEdges(path) =>
                LET k == Len(path)
                    names == {path[i] : i \in 1..k}
                IN  /\ Cardinality(entry) = k
                    /\ closure = {ConcreteEdge(a, b) : <<a, b>> \in names \X names}
                    /\ Cardinality(closure) = k * k

\* C11: for an acyclic simple chain of n concrete edges the closure returns
\* the n original edges plus n(n-1)/2 derived ones; for a cycle of k concrete
\* edges the call terminates and returns exactly the k*k edges over the k
\* names of the cycle, self-loops included.
C11_ChainAndCycleCounts ==
    /\ []C11_Counts
    /\ (pc = "closure_call") ~> (pc = "closure_returned")

\* C11 witness: the closure returned the nine edges over the names of a
\* cycle of three edges.
C11_Witness ==
    /\ pc = "closure_returned"
    /\ calls = 1
    /\ entry = CycleEdges(<<"A", "B", "C">>)
    /\ Cardinality(closure) = 9
    /\ ConcreteEdge("B", "B") \in closure
    /\ ConcreteEdge("C", "B") \in closure

\* a chain of four edges returned with its six derived edges
C11_LongChainReturned ==
    /\ pc = "closure_returned"
    /\ entry = ChainEdges(<<"A", "B", "C", "D", "E">>)
    /\ Cardinality(closure \ entry) = 6

(***************************************************************************)
(* A library caller of the unifier (tests/test_unification_unit.py): it    *)
(* holds a pattern, a fact and a substitution and calls unify or           *)
(* apply_substitution on them.  Slots are concrete names or the variables  *)
(* qiX and qiY; a substitution may have a key that is no variable name.    *)
(***************************************************************************)
UnifySlots == {<<"A", FALSE>>, <<"B", FALSE>>, <<"qiX", TRUE>>, <<"qiY", TRUE>>}

UnifyVerbSlots == {<<"v", FALSE>>, <<"A", FALSE>>, <<"qiX", TRUE>>}

NodePool ==
    {Proposition(s[1], s[2]) : s \in UnifySlots}
    \cup {SVOClause(s[1], s[2], v[1], v[2], o[1], o[2]) :
            <<s, v, o>> \in UnifySlots \X UnifyVerbSlots \X UnifySlots}
    \cup {ClassificationEdge(a[1], a[2], b[1], b[2]) : <<a, b>> \in UnifySlots \X UnifySlots}

\* the dicts with keys among qiX and A and values among A and B
SubstPool ==
    UNION {[keys -> {"A", "B"}] : keys \in SUBSET {"qiX", "A"}}

UnifyInit ==
    /\ NoParser
    /\ NoContext
    /\ NoClosureCall
    /\ entry = [facts |-> {}, classification_edges |-> {}]
    /\ calls = 0
    /\ pc = "caller"
    /\ call \in {[function |-> "", pattern |-> p, fact |-> f, subst |-> s] :
                    <<p, f, s>> \in NodePool \X NodePool \X SubstPool}

\* a binding is written into the dict that was passed in
subst_written_in_place(pattern, fact, subst) ==
    IF unify(pattern, fact, subst) \in {None, TypeError} THEN subst
    ELSE unify(pattern, fact, subst)

\* the caller's dict after unify returned: a binding is written to
\* new_subst = subst.copy() (lines 119-120 and 131-132), nothing to subst
subst_after_unify(pattern, fact, subst) == subst

\* result = unify(pattern, fact, subst)
CallUnify ==
    /\ pc = "caller"
    /\ call' = [function |-> "unify", pattern |-> call.pattern, fact |-> call.fact,
                subst |-> subst_after_unify(call.pattern, call.fact, call.subst),
                result |-> unify(call.pattern, call.fact, call.subst)]
    /\ pc' = "returned"
    /\ UNCHANGED <<parser, raised, ast, facts, classification_edges, rules, verb_lexicon,
                   queries, output, entry, calls, edges, closure, changed>>

\* result = apply_substitution(node, subst), node being the caller's pattern
CallApplySubstitution ==
    /\ pc = "caller"
    /\ call' = [function |-> "apply_substitution", node |-> call.pattern,
                subst |-> call.subst,
                result |-> apply_substitution(call.pattern, call.subst)]
    /\ pc' = "returned"
    /\ UNCHANGED <<parser, raised, ast, facts, classification_edges, rules, verb_lexicon,
                   queries, output, entry, calls, edges, closure, changed>>

UnifyNext == CallUnify \/ CallApplySubstitution

SpecUnify == UnifyInit /\ [][UnifyNext]_vars

\* a call of unify has returned
UnifyReturned == pc = "returned" /\ call.function = "unify"

\* C12: unify returns failure (None) whenever pattern and fact are of two
\* different AST variants, whatever their slots, flags and the incoming
\* substitution.
C12_MixedVariantsFail ==
    (UnifyReturned /\ call.pattern.variant # call.fact.variant) => call.result = None

\* C12 witness: a variable proposition, which unifies with any proposition,
\* was unified with an SVO clause under a substitution that binds it.
C12_Witness ==
    /\ UnifyReturned
    /\ call.pattern = Proposition("qiX", TRUE)
    /\ IsSVOClause(call.fact)
    /\ "qiX" \in DOMAIN call.subst
    /\ call.result = None

\* a call of unify has returned whose pattern is a variable proposition that
\* the incoming substitution binds, and whose fact is a proposition
BoundVariableCall ==
    /\ UnifyReturned
    /\ IsProposition(call.pattern)
    /\ call.pattern.is_variable
    /\ call.pattern.identifier \in DOMAIN call.subst
    /\ IsProposition(call.fact)

\* The claim C13 as it is worded, for any fact: with the variable bound to A,
\* a fact with identifier A unifies and the substitution comes back unchanged,
\* and a fact with any other identifier fails.
C13_AnyFact ==
    BoundVariableCall =>
        IF call.fact.identifier = call.subst[call.pattern.identifier]
        THEN call.result = call.subst
        ELSE call.result = None

\* C13 (amended): with an incoming substitution that binds variable X to A,
\* unifying the pattern "variable X" against a fact that is not flagged
\* variable succeeds and returns the substitution unchanged if the fact's
\* identifier is A, and fails if it is any other identifier.
C13_BoundVariableAgainstGroundFact ==
    (BoundVariableCall /\ ~call.fact.is_variable) =>
        IF call.fact.identifier = call.subst[call.pattern.identifier]
        THEN call.result = call.subst
        ELSE call.result = None

\* C13 witness: qiX is bound to A and was unified with the ground fact B,
\* which failed.
C13_Witness ==
    /\ BoundVariableCall
    /\ call.pattern = Proposition("qiX", TRUE)
    /\ call.subst["qiX"] = "A"
    /\ call.fact = Proposition("B", FALSE)
    /\ call.result = None

\* qiX is bound to A and was unified with the ground fact A: the
\* substitution came back as it was
C13_SameValueReturned ==
    /\ BoundVariableCall
    /\ call.subst["qiX"] = "A"
    /\ call.fact = Proposition("A", FALSE)
    /\ call.result = call.subst

\* qiX is bound to A and was unified with the fact "variable qiY", whose
\* identifier is not A: the call succeeded and bound qiY to A
C13_VariableFactUnifies ==
    /\ BoundVariableCall
    /\ call.subst["qiX"] = "A"
    /\ call.fact = Proposition("qiY", TRUE)
    /\ call.result # None
    /\ call.result["qiY"] = "A"

\* the slots of a node, in the order in which they are unified, each as
\* <<value, flag>>
SlotsOfNode(node) ==
    CASE IsProposition(node) -> <<<<node.identifier, node.is_variable>>>>
      [] IsSVOClause(node) -> <<<<node.subject, node.subject_is_var>>,
                                <<node.verb, node.verb_is_var>>,
                                <<node.object, node.object_is_var>>>>
      [] IsClassificationEdge(node) -> <<<<node.subtype, node.subtype_is_var>>,
                                         <<node.supertype, node.supertype_is_var>>>>

\* the names flagged variable in some slot of node
VariablesOf(node) ==
    LET slots == SlotsOfNode(node)
    IN  {slots[i][1] : i \in {j \in DOMAIN slots : slots[j][2]}}

\* the variable names that stand in two or more slots of node
RepeatedVariables(node) ==
    LET slots == SlotsOfNode(node)
    IN  {slots[i][1] : i \in {j \in DOMAIN slots :
            /\ slots[j][2]
            /\ \E k \in DOMAIN slots : k # j /\ slots[k][2] /\ slots[k][1] = slots[j][1]}}

IsGround(node) == VariablesOf(node) = {}

\* a call of unify has returned whose pattern is an SVO clause or an edge
\* that repeats a variable, no variable of which the incoming substitution
\* binds, and whose fact is a ground node of the same variant
RepeatedVariableCall ==
    /\ UnifyReturned
    /\ IsSVOClause(call.pattern) \/ IsClassificationEdge(call.pattern)
    /\ call.fact.variant = call.pattern.variant
    /\ IsGround(call.fact)
    /\ RepeatedVariables(call.pattern) # {}
    /\ VariablesOf(call.pattern) \cap DOMAIN call.subst = {}

\* C14: unifying an SVO clause or a classification edge threads the
\* substitution from slot to slot: a pattern that repeats one variable name
\* in two slots unifies with a ground fact iff the fact holds the same value
\* in both of those slots and the remaining slots unify, and the result binds
\* that variable once, to that value, next to the incoming bindings.
C14_RepeatedVariableThreaded ==
    RepeatedVariableCall =>
        LET ps == SlotsOfNode(call.pattern)
            fs == SlotsOfNode(call.fact)
            sameValue == \A i \in DOMAIN ps : \A j \in DOMAIN ps :
                            (ps[i][2] /\ ps[j][2] /\ ps[i][1] = ps[j][1]) => fs[i][1] = fs[j][1]
            othersUnify == \A i \in DOMAIN ps : ~ps[i][2] => ps[i][1] = fs[i][1]
        IN  /\ (call.result # None) <=> (sameValue /\ othersUnify)
            /\ call.result # None =>
                /\ DOMAIN call.result = DOMAIN call.subst \cup VariablesOf(call.pattern)
                /\ \A i \in DOMAIN ps : ps[i][2] => call.result[ps[i][1]] = fs[i][1]
                /\ \A key \in DOMAIN call.subst : call.result[key] = call.subst[key]

\* C14 witness: qiX stands in the subject and the object slot and the fact
\* holds A and B there: unification failed at the object slot.
C14_Witness ==
    /\ RepeatedVariableCall
    /\ call.pattern = SVOClause("qiX", TRUE, "v", FALSE, "qiX", TRUE)
    /\ call.fact = SVOClause("A", FALSE, "v", FALSE, "B", FALSE)
    /\ call.result = None

\* qiX stands in both slots of an edge pattern and the fact holds B in both:
\* qiX is bound to B
C14_EdgeBoundOnce ==
    /\ RepeatedVariableCall
    /\ call.pattern = ClassificationEdge("qiX", TRUE, "qiX", TRUE)
    /\ call.fact = ClassificationEdge("B", FALSE, "B", FALSE)
    /\ call.subst = EmptySubst
    /\ call.result = [v \in {"qiX"} |-> "B"]

\* a call of apply_substitution has returned
ApplySubstitutionReturned == pc = "returned" /\ call.function = "apply_substitution"

\* what the claim C15 says a slot <<value, flag>> becomes under subst
SubstitutedSlot(slot, subst) ==
    IF slot[2] /\ slot[1] \in DOMAIN subst THEN <<subst[slot[1]], FALSE>> ELSE slot

\* the result is of the node's variant and each of its slots is the node's
\* slot, substituted
C15_Slots ==
    ApplySubstitutionReturned =>
        /\ call.result.variant = call.node.variant
        /\ LET before == SlotsOfNode(call.node)
               after == SlotsOfNode(call.result)
           IN  /\ DOMAIN after = DOMAIN before
               /\ \A i \in DOMAIN before : after[i] = SubstitutedSlot(before[i], call.subst)

\* the call leaves the caller's node and substitution as they were
C15_Frame ==
    (pc = "caller" /\ call'.function = "apply_substitution") =>
        /\ call'.node = call.pattern
        /\ call'.subst = call.subst

\* C15: apply_substitution(node, subst) returns a node of the same variant
\* in which every slot flagged variable whose name is a key of subst holds
\* the bound value with its flag cleared, and every other slot value and
\* flag equals the input's; neither the input node nor subst is modified.
C15_ApplySubstitutionSlotwise ==
    /\ []C15_Slots
    /\ [][C15_Frame]_vars

\* C15 witness: an SVO clause with a bound variable, an unbound variable and
\* a concrete slot whose name is a key of the substitution: only the first
\* was replaced.
C15_Witness ==
    /\ ApplySubstitutionReturned
    /\ call.node = SVOClause("qiX", TRUE, "A", FALSE, "qiY", TRUE)
    /\ call.subst = [key \in {"qiX", "A"} |-> "B"]
    /\ call.result = SVOClause("B", FALSE, "A", FALSE, "qiY", TRUE)

(***************************************************************************)
(* The parser (src/ink/parser.py) on the tokens of the lexer               *)
(* (src/src/ink/lexer.py).  A token's value is the sequence of its         *)
(* characters.  The keyword characters are written by their readings:      *)
(* yue (U+66F0), wen (U+554F), hu (U+4E4E), ruo (U+82E5), ze (U+5247),     *)
(* qie (U+4E14), zhe (U+8005), ye (U+4E5F), yi (U+4EE5), wei (U+70BA),     *)
(* dong (U+52D5); "qi" is the variable marker; "nl" and "tab" are the      *)
(* values of the NEWLINE and INDENT tokens.                                *)
(***************************************************************************)
Token(type, value) == [type |-> type, value |-> value]

KEYWORDS == {"yue", "wen", "hu", "ruo", "ze", "qie", "zhe", "ye", "yi", "wei", "dong"}

Keyword(char) == Token("KEYWORD", <<char>>)
NEWLINE == Token("NEWLINE", <<"nl">>)
INDENT == Token("INDENT", <<"tab">>)
EOF == Token("EOF", <<>>)

\* lexer.py 107-110: an identifier that starts with the marker is a VARIABLE
Word(chars) == Token(IF chars # <<>> /\ chars[1] = "qi" THEN "VARIABLE" ELSE "IDENTIFIER", chars)

\* the Python string of a sequence of characters
RECURSIVE Text(_)
Text(chars) == IF chars = <<>> THEN "" ELSE chars[1] \o Text(Tail(chars))

\* ''.join(parts), parts being a sequence of character sequences
RECURSIVE Join(_)
Join(parts) == IF parts = <<>> THEN <<>> ELSE parts[1] \o Join(Tail(parts))

\* text.startswith(marker)
StartsWithMarker(chars) == chars # <<>> /\ chars[1] = "qi"

\* text.find(sub): the index of the first occurrence of sub in text, or -1
Find(text, sub) ==
    LET found == {p \in 0..(Len(text) - Len(sub)) : SubSeq(text, p + 1, p + Len(sub)) = sub}
    IN  IF found = {} THEN -1 ELSE CHOOSE p \in found : \A q \in found : p <= q

\* what a parsing method ends with: a node and the position reached, or a
\* ParseError and the position at which it was raised
Parsed(node, position) == [ok |-> TRUE, node |-> node, position |-> position]
ParseError(error, position) == [ok |-> FALSE, error |-> error, position |-> position]

\* a parsing method goes on with Continue after a step that did not raise,
\* and ends with the step's ParseError otherwise
AndThen(result, Continue(_)) == IF result.ok THEN Continue(result) ELSE result

\* Parser.peek: positions count from 0
peek(tokens, position, offset) ==
    IF position + offset < Len(tokens) THEN tokens[position + offset + 1]
    ELSE tokens[Len(tokens)]

\* the position moves on whatever the current token is
advance_past_end(tokens, position) == position + 1

\* Parser.advance: the position after the current token was consumed
advance(tokens, position) ==
    IF peek(tokens, position, 0).type # "EOF" THEN position + 1 ELSE position

\* Parser.expect(KEYWORD, char); the node of a success is the token
expect(tokens, position, char) ==
    LET token == peek(tokens, position, 0)
    IN  IF token.type # "KEYWORD" THEN ParseError("Unexpected token", position)
        ELSE IF token.value # <<char>> THEN ParseError("Unexpected token", position)
        ELSE Parsed(token, advance(tokens, position))

IsWord(token) == token.type \in {"IDENTIFIER", "VARIABLE"}

\* Parser.parse_verb_declaration; the verb is added to the lexicon by the
\* step that parsed the statement
parse_verb_declaration(tokens, position) ==
    AndThen(expect(tokens, position, "yi"), LAMBDA e1 :
        IF ~IsWord(peek(tokens, e1.position, 0))
        THEN ParseError("Expected identifier for verb", e1.position)
        ELSE AndThen(expect(tokens, advance(tokens, e1.position), "wei"), LAMBDA e2 :
             AndThen(expect(tokens, e2.position, "dong"), LAMBDA e3 :
                Parsed(VerbDeclaration(Text(peek(tokens, e1.position, 0).value)),
                       e3.position))))

\* Parser.parse_proposition
parse_proposition(tokens, position) ==
    AndThen(expect(tokens, position, "yue"), LAMBDA e1 :
        LET token == peek(tokens, e1.position, 0)
        IN  IF token.type = "VARIABLE"
            THEN Parsed(Proposition(Text(token.value), TRUE), advance(tokens, e1.position))
            ELSE IF token.type = "IDENTIFIER"
            THEN Parsed(Proposition(Text(token.value), FALSE), advance(tokens, e1.position))
            ELSE ParseError("Expected identifier or variable for proposition", e1.position))

\* the while loop of parse_classification_edge, as the state it ends in
RECURSIVE SupertypeLoop(_, _, _, _)
SupertypeLoop(tokens, position, supertype_parts, supertype_is_var) ==
    LET token == peek(tokens, position, 0)
        stop == [position |-> position, supertype_parts |-> supertype_parts,
                 supertype_is_var |-> supertype_is_var]
    IN  IF token.type = "KEYWORD" /\ token.value = <<"ye">> THEN stop
        ELSE IF token.type = "IDENTIFIER"
        THEN SupertypeLoop(tokens, advance(tokens, position),
                           Append(supertype_parts, token.value), supertype_is_var)
        ELSE IF token.type = "VARIABLE"
        THEN SupertypeLoop(tokens, advance(tokens, position),
                           Append(supertype_parts, token.value), TRUE)
        ELSE IF token.type = "KEYWORD"
        THEN SupertypeLoop(tokens, advance(tokens, position),
                           Append(supertype_parts, token.value), supertype_is_var)
        ELSE stop

\* Parser.parse_classification_edge; position is the one after first_token
parse_classification_edge(tokens, position, first_token) ==
    AndThen(expect(tokens, position, "zhe"), LAMBDA e1 :
        LET loop == SupertypeLoop(tokens, e1.position, <<>>, FALSE)
        IN  IF loop.supertype_parts = <<>>
            THEN ParseError("Expected identifier or variable for supertype", loop.position)
            ELSE AndThen(expect(tokens, loop.position, "ye"), LAMBDA e2 :
                    Parsed(ClassificationEdge(Text(first_token.value),
                                              first_token.type = "VARIABLE",
                                              Text(Join(loop.supertype_parts)),
                                              loop.supertype_is_var),
                           e2.position)))

\* parse_svo_clause, lines 157-170: the identifier and variable tokens up to
\* the next NEWLINE, EOF or KEYWORD token, other tokens being skipped
RECURSIVE CollectLoop(_, _, _)
CollectLoop(tokens, position, identifiers) ==
    LET token == peek(tokens, position, 0)
    IN  IF token.type \in {"NEWLINE", "EOF", "KEYWORD"}
        THEN [position |-> position, identifiers |-> identifiers]
        ELSE IF IsWord(token)
        THEN CollectLoop(tokens, advance(tokens, position), Append(identifiers, token))
        ELSE CollectLoop(tokens, advance(tokens, position), identifiers)

\* verb_found = None
NoVerb == <<>>

\* the loop is left at the first verb of the enumeration that occurs in text
RECURSIVE VerbScanFirstMatch(_, _, _, _, _)
VerbScanFirstMatch(text, order, i, verb_found, verb_pos) ==
    IF i > Len(order)
    THEN [multiple |-> FALSE, verb_found |-> verb_found, verb_pos |-> verb_pos]
    ELSE LET pos == Find(text, order[i])
         IN  IF pos # -1
             THEN [multiple |-> FALSE, verb_found |-> order[i], verb_pos |-> pos]
             ELSE VerbScanFirstMatch(text, order, i + 1, verb_found, verb_pos)

\* parse_svo_clause, lines 178-188: the loop over self.verb_lexicon, which is
\* enumerated in the sequence order, from its i-th verb on
RECURSIVE VerbScan(_, _, _, _, _)
VerbScan(text, order, i, verb_found, verb_pos) ==
    IF i > Len(order)
    THEN [multiple |-> FALSE, verb_found |-> verb_found, verb_pos |-> verb_pos]
    ELSE LET pos == Find(text, order[i])
         IN  IF pos # -1
             THEN IF verb_found # NoVerb
                  THEN [multiple |-> TRUE, verb_found |-> verb_found, verb_pos |-> verb_pos]
                  ELSE VerbScan(text, order, i + 1, order[i], pos)
             ELSE VerbScan(text, order, i + 1, verb_found, verb_pos)

\* parse_svo_clause, lines 173-221: the clause is one token
SingleTokenClause(text, order, position) ==
    LET scan == VerbScan(text, order, 1, NoVerb, -1)
        verb_found == scan.verb_found
        verb_pos == scan.verb_pos
    IN  IF scan.multiple THEN ParseError("Multiple verbs", position)
        ELSE IF verb_found = NoVerb THEN ParseError("Undeclared verb", position)
        ELSE IF verb_pos = 0 THEN ParseError("No subject before the verb", position)
        ELSE IF verb_pos + Len(verb_found) >= Len(text)
        THEN ParseError("No object after the verb", position)
        ELSE LET subject == SubSeq(text, 1, verb_pos)
                 object_val == SubSeq(text, verb_pos + Len(verb_found) + 1, Len(text))
             IN  Parsed(SVOClause(Text(subject), StartsWithMarker(subject),
                                  Text(verb_found), FALSE,
                                  Text(object_val), StartsWithMarker(object_val)),
                        position)

\* [t.value for t in tokens]
ValuesOf(token_list) == [i \in DOMAIN token_list |-> token_list[i].value]

\* the flag is taken from the first token alone
FirstIsVariable(token_list) == token_list[1].type = "VARIABLE"

\* any(t.type == VARIABLE for t in tokens)
AnyVariable(token_list) == \E i \in DOMAIN token_list : token_list[i].type = "VARIABLE"

\* parse_svo_clause, lines 224-278: the clause is several tokens; the
\* indexes of verb_positions count from 0
MultiTokenClause(identifiers, lexicon, position) ==
    LET indexes == [i \in 1..Len(identifiers) |-> i - 1]
        verb_positions == SelectSeq(indexes,
                                    LAMBDA i : identifiers[i + 1].value \in lexicon)
    IN  IF Len(verb_positions) = 0 THEN ParseError("Undeclared verb", position)
        ELSE IF Len(verb_positions) > 1 THEN ParseError("Multiple verbs", position)
        ELSE LET verb_pos == verb_positions[1]
             IN  IF verb_pos = 0 THEN ParseError("No subject before the verb", position)
                 ELSE IF verb_pos = Len(identifiers) - 1
                 THEN ParseError("No object after the verb", position)
                 ELSE LET subject_tokens == SubSeq(identifiers, 1, verb_pos)
                          verb_token == identifiers[verb_pos + 1]
                          object_tokens == SubSeq(identifiers, verb_pos + 2, Len(identifiers))
                      IN  Parsed(SVOClause(Text(Join(ValuesOf(subject_tokens))),
                                           AnyVariable(subject_tokens),
                                           Text(verb_token.value),
                                           verb_token.type = "VARIABLE",
                                           Text(Join(ValuesOf(object_tokens))),
                                           AnyVariable(object_tokens)),
                                 position)

\* Parser.parse_svo_clause; position is the one after first_token, and order
\* is the sequence in which self.verb_lexicon is enumerated
parse_svo_clause(tokens, position, first_token, order) ==
    LET collected == CollectLoop(tokens, position, <<first_token>>)
        identifiers == collected.identifiers
    IN  IF Len(identifiers) = 1
        THEN SingleTokenClause(identifiers[1].value, order, collected.position)
        ELSE MultiTokenClause(identifiers, SetOf(order), collected.position)

\* Parser.parse_expression
parse_expression(tokens, position, order) ==
    LET token == peek(tokens, position, 0)
    IN  IF token.type = "KEYWORD" /\ token.value = <<"yue">>
        THEN parse_proposition(tokens, position)
        ELSE IF ~IsWord(token)
        THEN ParseError("Expected identifier or variable", position)
        ELSE
    LET first_token == token
        after_first == advance(tokens, position)
        next_token == peek(tokens, after_first, 0)
        contains_verb == \E verb \in SetOf(order) : Find(first_token.value, verb) # -1
        plain == Parsed(Proposition(Text(first_token.value), first_token.type = "VARIABLE"),
                        after_first)
    IN  IF next_token.type = "KEYWORD" /\ next_token.value = <<"zhe">>
        THEN parse_classification_edge(tokens, after_first, first_token)
        ELSE IF ~contains_verb /\ next_token.type \in {"NEWLINE", "EOF"} THEN plain
        ELSE IF /\ ~contains_verb
                /\ next_token.type = "KEYWORD"
                /\ next_token.value \in {<<"hu">>, <<"ze">>, <<"qie">>} THEN plain
        ELSE parse_svo_clause(tokens, after_first, first_token, order)

\* parse_rule, lines 407-413: the loop over the premises that follow a qie
RECURSIVE PremiseLoop(_, _, _, _)
PremiseLoop(tokens, position, premises, order) ==
    LET token == peek(tokens, position, 0)
    IN  IF token.type = "KEYWORD" /\ token.value = <<"qie">>
        THEN AndThen(parse_expression(tokens, advance(tokens, position), order),
                     LAMBDA premise :
                        PremiseLoop(tokens, premise.position,
                                    Append(premises, premise.node), order))
        ELSE Parsed(premises, position)

\* Parser.parse_rule
parse_rule(tokens, position, order) ==
    AndThen(expect(tokens, position, "ruo"), LAMBDA e1 :
    AndThen(parse_expression(tokens, e1.position, order), LAMBDA first :
    AndThen(PremiseLoop(tokens, first.position, <<first.node>>, order), LAMBDA premises :
    AndThen(expect(tokens, premises.position, "ze"), LAMBDA e2 :
    AndThen(parse_expression(tokens, e2.position, order), LAMBDA conclusion :
        Parsed(Rule(premises.node, conclusion.node), conclusion.position))))))

\* Parser.parse_query
parse_query(tokens, position, order) ==
    AndThen(expect(tokens, position, "wen"), LAMBDA e1 :
    AndThen(parse_expression(tokens, e1.position, order), LAMBDA expression :
    AndThen(expect(tokens, expression.position, "hu"), LAMBDA e2 :
        Parsed(Query(expression.node), e2.position))))

\* the position after the tokens whose type is in types were skipped
RECURSIVE Skip(_, _, _)
Skip(tokens, position, types) ==
    IF peek(tokens, position, 0).type \in types
    THEN Skip(tokens, advance(tokens, position), types)
    ELSE position

\* parse_statement returns None at the end of the input
NoStatement == [variant |-> "None"]

\* a statement with no leading particle is parsed as an expression, a bare
\* identifier before a statement boundary becoming a plain proposition
parse_statement_as_expression(tokens, position, order) ==
    LET start == Skip(tokens, position, {"INDENT", "NEWLINE"})
        token == peek(tokens, start, 0)
    IN  IF token.type = "EOF" THEN Parsed(NoStatement, start)
        ELSE IF token.type = "KEYWORD"
        THEN CASE token.value = <<"yi">> -> parse_verb_declaration(tokens, start)
               [] token.value = <<"yue">> -> parse_proposition(tokens, start)
               [] token.value = <<"ruo">> -> parse_rule(tokens, start, order)
               [] token.value = <<"wen">> -> parse_query(tokens, start, order)
               [] OTHER -> ParseError("Unexpected keyword", start)
        ELSE IF IsWord(token)
        THEN parse_expression(tokens, start, order)
        ELSE ParseError("Unexpected token", start)

\* Parser.parse_statement
parse_statement(tokens, position, order) ==
    LET start == Skip(tokens, position, {"INDENT", "NEWLINE"})
        token == peek(tokens, start, 0)
    IN  IF token.type = "EOF" THEN Parsed(NoStatement, start)
        ELSE IF token.type = "KEYWORD"
        THEN CASE token.value = <<"yi">> -> parse_verb_declaration(tokens, start)
               [] token.value = <<"yue">> -> parse_proposition(tokens, start)
               [] token.value = <<"ruo">> -> parse_rule(tokens, start, order)
               [] token.value = <<"wen">> -> parse_query(tokens, start, order)
               [] OTHER -> ParseError("Unexpected keyword", start)
        ELSE IF IsWord(token)
        THEN LET first_token == token
                 after_first == advance(tokens, start)
                 next_token == peek(tokens, after_first, 0)
             IN  IF next_token.type = "KEYWORD" /\ next_token.value = <<"zhe">>
                 THEN parse_classification_edge(tokens, after_first, first_token)
                 ELSE parse_svo_clause(tokens, after_first, first_token, order)
        ELSE ParseError("Unexpected token", start)

\* a declaration adds every verb that the source declares, those of the
\* lines below included
DeclaredVerbsAhead(tokens, start, statement) ==
    IF statement.variant = "VerbDeclaration"
    THEN {tokens[i + 1].value : i \in {j \in 1..(Len(tokens) - 1) : tokens[j] = Keyword("yi")}}
    ELSE {}

\* the verb a statement adds to self.verb_lexicon: parse_verb_declaration,
\* line 107; start is the position of the statement's first token
DeclaredVerbs(tokens, start, statement) ==
    IF statement.variant = "VerbDeclaration" THEN {peek(tokens, start, 1).value} ELSE {}

\* the verb is put into the lexicon as soon as its token was consumed
VerbsOfRaisedEarly(tokens, start) ==
    IF peek(tokens, start, 0) = Keyword("yi") /\ IsWord(peek(tokens, start, 1))
    THEN {peek(tokens, start, 1).value}
    ELSE {}

\* the verbs a statement that raised has added to self.verb_lexicon: the
\* add of parse_verb_declaration (line 107) stands after its last expect,
\* and no other method writes the lexicon
VerbsOfRaised(tokens, start) == {}

\* parse_program_internal: one round of its loop that appends a statement,
\* the trailing newlines being skipped
ParseStatement ==
    /\ pc = "parse_program"
    /\ \E order \in Enumerations(parser.verb_lexicon) :
       \E result \in {parse_statement(parser.tokens, parser.position, order)} :
        LET start == Skip(parser.tokens, parser.position, {"INDENT", "NEWLINE"})
        IN  /\ result.ok
            /\ result.node # NoStatement
            /\ ast' = Append(ast, result.node)
            /\ parser' = [parser EXCEPT
                    !.position = Skip(parser.tokens, result.position, {"NEWLINE"}),
                    !.verb_lexicon = @ \cup DeclaredVerbs(parser.tokens, start, result.node)]
    /\ UNCHANGED <<pc, raised, call, facts, classification_edges, rules, verb_lexicon,
                   queries, output, entry, calls, edges, closure, changed>>

\* parse_program_internal: parse_statement returned None and the statement
\* list is returned
ParseProgramReturn ==
    /\ pc = "parse_program"
    /\ \E order \in Enumerations(parser.verb_lexicon) :
       \E result \in {parse_statement(parser.tokens, parser.position, order)} :
        /\ result.ok
        /\ result.node = NoStatement
        /\ parser' = [parser EXCEPT !.position = result.position]
    /\ pc' = "parsed"
    /\ UNCHANGED <<raised, call, ast, facts, classification_edges, rules, verb_lexicon,
                   queries, output, entry, calls, edges, closure, changed>>

\* parse_program_internal: parse_statement raised a ParseError
ParseProgramRaise ==
    /\ pc = "parse_program"
    /\ \E order \in Enumerations(parser.verb_lexicon) :
       \E result \in {parse_statement(parser.tokens, parser.position, order)} :
        /\ ~result.ok
        /\ raised' = result.error
        /\ parser' = [parser EXCEPT
                !.position = result.position,
                !.verb_lexicon = @ \cup VerbsOfRaised(parser.tokens,
                                        Skip(parser.tokens, parser.position, {"INDENT", "NEWLINE"}))]
    /\ pc' = "parse_error"
    /\ UNCHANGED <<call, ast, facts, classification_edges, rules, verb_lexicon,
                   queries, output, entry, calls, edges, closure, changed>>

(***************************************************************************)
(* Programs given to parse_program, as the token lists the lexer makes of  *)
(* them: declarations of some verbs, then one statement that holds a       *)
(* clause (at the top level, in a query, or in a premise or the conclusion *)
(* of a rule), then possibly the declaration of a verb that comes too      *)
(* late; the scenario programs of the integration tests; and verb         *)
(* declarations that are malformed.                                        *)
(***************************************************************************)
\* the sequences of lo..hi elements of S
SeqsOver(S, lo, hi) == UNION {[1..n -> S] : n \in lo..hi}

\* verbs for clauses of one token: two of one character, and one of two
\* characters that holds another verb and starts like a name
TextVerbPool == {<<"v">>, <<"w">>, <<"a", "v">>}

\* verbs for clauses of several tokens: one the lexer makes an IDENTIFIER
\* token of and one it makes a VARIABLE token of
RunVerbPool == {<<"v">>, <<"qi", "v">>}

Declaration(verb) ==
    <<Keyword("yi"), Word(verb), Keyword("wei"), Keyword("dong"), NEWLINE>>

\* the declarations of the verbs of the set verbs, one per line
Declarations(verbs) == Join([i \in 1..Cardinality(verbs) |-> Declaration(SomeSeq(verbs)[i])])

TextLexicons == SubsetsUpTo(TextVerbPool, MaxVerbs)

RunLexicons == SubsetsUpTo(RunVerbPool, MaxVerbs)

\* clauses that the lexer made one token of
SingleTokenClauses == {<<Word(text)>> : text \in SeqsOver({"a", "v", "w", "qi"}, 1, MaxText)}

\* clauses of several tokens, an INDENT token possibly among them
RunTokens == {Word(<<"a">>), Word(<<"v">>), Word(<<"qi", "a">>), Word(<<"qi", "v">>), INDENT}

MultiTokenClauses ==
    {run \in SeqsOver(RunTokens, 2, MaxRun) :
        /\ IsWord(run[1])
        /\ \E i \in 2..Len(run) : IsWord(run[i])}

\* what may stand between zhe and ye
SupertypeTokens ==
    {Word(<<"b">>), Word(<<"qi", "b">>), Keyword("dong"), Keyword("zhe"), NEWLINE, INDENT}

\* classification edges, with and without supertype tokens and terminator
EdgeClauses ==
    {<<first, Keyword("zhe")>> \o middle \o end :
        <<first, middle, end>> \in
            {Word(<<"a">>), Word(<<"qi", "a">>)}
            \X SeqsOver(SupertypeTokens, 0, MaxSupertype)
            \X {<<Keyword("ye")>>, <<>>}}

InQuery(clause) == <<Keyword("wen")>> \o clause \o <<Keyword("hu")>>

AsPremise(clause) ==
    <<Keyword("ruo")>> \o clause \o <<Keyword("ze"), Keyword("yue"), Word(<<"p">>)>>

AsSecondPremise(clause) ==
    <<Keyword("ruo"), Keyword("yue"), Word(<<"p">>), Keyword("qie")>> \o clause
        \o <<Keyword("ze"), Keyword("yue"), Word(<<"q">>)>>

AsConclusion(clause) ==
    <<Keyword("ruo"), Keyword("yue"), Word(<<"p">>), Keyword("ze")>> \o clause

\* the statements that hold clause at one of the places a clause can stand
Placements(clause) ==
    {clause, InQuery(clause), AsPremise(clause), AsSecondPremise(clause), AsConclusion(clause)}

\* a clause with the verb v between a and b, written without spaces (one
\* token) and with spaces (three tokens)
MergedClause == <<Word(<<"a", "v", "b">>)>>

SpacedClause == <<Word(<<"a">>), Word(<<"v">>), Word(<<"b">>)>>

LateVerbClauses == {MergedClause, SpacedClause}

\* the programs that hold one of the statements and declare the verb v after
\* it or not at all, another verb possibly being declared before
UndeclaredVerbPrograms(statements) ==
    {Declarations(verbs) \o statement \o <<NEWLINE>> \o late \o <<EOF>> :
        <<verbs, statement, late>> \in
            {{}, {<<"w">>}} \X statements \X {Declaration(<<"v">>), <<>>}}

\* the scenario programs: a chain of rules over bare propositions, a closure
\* over edges, a conjunctive rule, an SVO query with a variable, an asserted
\* variable, a rule whose conclusion has a variable of its own, and rules
\* with a variable over an SVO fact
ScenarioPrograms ==
    {AsPremise(<<Word(<<"a">>)>>) \o <<NEWLINE, Keyword("yue"), Word(<<"a">>), NEWLINE>>
        \o InQuery(<<Word(<<"p">>)>>),
     <<Word(<<"a">>), Keyword("zhe"), Word(<<"b">>), Keyword("ye"), NEWLINE,
       Word(<<"c">>), Keyword("zhe"), Word(<<"a">>), Keyword("ye"), NEWLINE>>
        \o InQuery(<<Word(<<"c">>), Keyword("zhe"), Word(<<"b">>), Keyword("ye")>>),
     <<Keyword("yue"), Word(<<"p">>), NEWLINE, Keyword("yue"), Word(<<"a">>), NEWLINE>>
        \o AsSecondPremise(<<Word(<<"a">>)>>) \o <<NEWLINE>> \o InQuery(<<Word(<<"q">>)>>),
     Declaration(<<"v">>) \o <<Word(<<"a", "v", "b">>), NEWLINE>>
        \o InQuery(<<Word(<<"qi", "X", "v", "b">>)>>),
     <<Keyword("yue"), Word(<<"a">>), NEWLINE>> \o InQuery(<<Word(<<"b">>)>>),
     <<Keyword("yue"), Word(<<"qi", "Y">>), NEWLINE>> \o InQuery(<<Word(<<"a">>)>>),
     <<Keyword("yue"), Word(<<"a">>), NEWLINE,
       Keyword("ruo"), Word(<<"a">>), Keyword("ze"), Word(<<"qi", "Z">>), NEWLINE,
       Keyword("ruo"), Word(<<"qi", "X">>), Keyword("ze"), Word(<<"qi", "X">>), NEWLINE>>
        \o InQuery(<<Word(<<"p">>)>>),
     Declaration(<<"v">>) \o <<Word(<<"a", "v", "b">>), NEWLINE>>
        \o AsPremise(<<Word(<<"qi", "X", "v", "b">>)>>)
        \o <<NEWLINE, Keyword("ruo"), Word(<<"qi", "X", "v", "b">>), Keyword("ze"),
             Keyword("yue"), Word(<<"qi", "X">>), NEWLINE>>
        \o InQuery(<<Word(<<"a">>)>>),
     <<>>}

\* verb declarations that break off or go wrong after the verb, or lack it
MalformedDeclarations ==
    {<<Keyword("yi"), Word(<<"v">>), Keyword("wei")>>,
     <<Keyword("yi"), Word(<<"v">>)>>,
     <<Keyword("yi"), Word(<<"v">>), Keyword("dong")>>,
     <<Keyword("yi"), Word(<<"v">>), Keyword("wei"), Word(<<"a">>)>>,
     <<Keyword("yi"), Keyword("wei"), Keyword("dong")>>}

\* a malformed declaration, after the declaration of another verb or none,
\* at the end of the source or before a clause
MalformedDeclarationPrograms ==
    {Declarations(verbs) \o malformed \o rest \o <<EOF>> :
        <<verbs, malformed, rest>> \in
            {{}, {<<"w">>}} \X MalformedDeclarations \X {<<>>, <<NEWLINE>> \o SpacedClause}}

\* the clauses to segment, each with a set of verbs to declare before it
ClausesWithVerbs == (TextLexicons \X SingleTokenClauses) \cup (RunLexicons \X MultiTokenClauses)

Programs ==
    {Declarations(vc[1]) \o vc[2] \o <<EOF>> : vc \in ClausesWithVerbs}
    \cup {Declarations(vc[1]) \o InQuery(vc[2]) \o <<EOF>> : vc \in ClausesWithVerbs}
    \cup {statement \o <<EOF>> : statement \in UNION {Placements(clause) : clause \in EdgeClauses}}
    \cup UndeclaredVerbPrograms(UNION {Placements(clause) : clause \in LateVerbClauses})
    \cup {program \o <<EOF>> : program \in ScenarioPrograms}
    \cup MalformedDeclarationPrograms

\* parser = Parser(tokenize(source)); parser.parse_program_internal()
ParserInit ==
    /\ NoCall
    /\ NoClosureCall
    /\ facts = {}
    /\ classification_edges = {}
    /\ rules = <<>>
    /\ verb_lexicon = {}
    /\ queries = <<>>
    /\ output = <<>>
    /\ entry = [facts |-> {}, classification_edges |-> {}]
    /\ calls = 0
    /\ ast = <<>>
    /\ raised = ""
    /\ parser \in {[tokens |-> tokens, position |-> 0, verb_lexicon |-> {}] :
                    tokens \in Programs}
    /\ pc = "parse_program"

ParserNext == ParseStatement \/ ParseProgramReturn \/ ParseProgramRaise

SpecParser == ParserInit /\ [][ParserNext]_vars


(***************************************************************************)
(* The command line: main parses the source and evaluates the statement    *)
(* list that parse_program returned.                                       *)
(***************************************************************************)
\* cli.main, lines 24-25: eval_program is called with the parsed program
Main ==
    /\ pc = "parsed"
    /\ pc' = "eval_program"
    /\ UNCHANGED <<parser, raised, call, ast, facts, classification_edges, rules,
                   verb_lexicon, queries, output, entry, calls, edges, closure, changed>>

MainNext == ParserNext \/ Main \/ Next

SpecMain == ParserInit /\ [][MainNext]_vars

\* the node types that apply_substitution and unify have a branch for
Supported(node) == IsProposition(node) \/ IsSVOClause(node) \/ IsClassificationEdge(node)

\* the patterns eval_program hands to unify: the premises of the rules and
\* the expressions of the queries
PatternsOf(program) ==
    UNION {SetOf(rule.premises) : rule \in SetOf(RulesOf(program))}
    \cup {query.expression : query \in SetOf(QueriesOf(program))}

\* the statement list that parse_program returned holds declarations,
\* assertions of the three supported types, and rules and queries over
\* expressions of the three supported types
WellFormed(program) ==
    \A i \in DOMAIN program :
        \/ program[i].variant = "VerbDeclaration"
        \/ Supported(program[i])
        \/ /\ program[i].variant = "Query"
           /\ Supported(program[i].expression)
        \/ /\ program[i].variant = "Rule"
           /\ Len(program[i].premises) >= 1
           /\ \A j \in DOMAIN program[i].premises : Supported(program[i].premises[j])
           /\ Supported(program[i].conclusion)

\* the calls of unify and apply_substitution that the context of eval_program
\* gives rise to, none of which ends in the unsupported-node-type failure
NoTypeError ==
    /\ \A fact \in facts : Supported(fact)
    /\ \A pattern \in PatternsOf(ast) : \A fact \in facts :
            unify(pattern, fact, EmptySubst) # TypeError
    /\ \A rule \in SetOf(rules) :
            apply_substitution(rule.conclusion, EmptySubst) # TypeErrorNode
    /\ \A edge \in classification_edges : IsClassificationEdge(edge)

\* C16: for every program that parses successfully, the statement list is
\* well formed and, all through eval_program, every node that reaches unify,
\* apply_substitution, the closure or the fixpoint is a Proposition, an
\* SVOClause or a ClassificationEdge: no call ends in the unsupported-node-type
\* failure and no error is raised.
C16_NoRuntimeError ==
    pc \in {"parsed", "eval_program", "fixpoint_closure", "fixpoint_rules",
            "fixpoint_returned", "done"}
    => /\ WellFormed(ast)
       /\ NoTypeError
       /\ raised = ""

\* a program with a rule and a query was parsed and evaluated, and its query
\* was answered from a derived fact
C16_Witness ==
    /\ pc = "done"
    /\ parser.position > 0
    /\ Len(rules) >= 1
    /\ output = <<"T">>
    /\ \E fact \in facts : fact \notin SetOf(AssertionsOf(ast))


(***************************************************************************)
(* Claims about the verb vocabulary of the parser.                         *)
(***************************************************************************)
\* a step of the parser: it moves on in the tokens, or parse_program ends
ParserStep ==
    /\ pc = "parse_program"
    /\ pc' \in {"parsed", "parse_error", "parse_program"}
    /\ \E position \in 0..Len(parser.tokens) :
       \E lexicon \in SUBSET (TextVerbPool \cup RunVerbPool) :
            parser' = [tokens |-> parser.tokens, position |-> position,
                       verb_lexicon |-> lexicon]
    /\ pc' # "parse_program" \/ parser'.position > parser.position

\* the step of the parser can always be taken: parse_statement returns a
\* statement, returns None or raises
ParserNeverBlocks ==
    pc = "parse_program"
    => \E order \in Enumerations(parser.verb_lexicon) :
       \E result \in {parse_statement(parser.tokens, parser.position, order)} :
            \/ result.ok /\ result.node # NoStatement
            \/ result.ok /\ result.node = NoStatement
            \/ ~result.ok

\* The parser is one thread that runs to completion: while parse_program is
\* running it takes its next step (ParserNeverBlocks: there always is one).
SpecParserFair == SpecParser /\ WF_<<pc, parser>>(ParserStep)

\* the clauses of a statement: the statement itself, or the premises and the
\* conclusion of a rule, or the expression of a query
ClausesOf(statement) ==
    CASE statement.variant = "Rule" -> SetOf(statement.premises) \cup {statement.conclusion}
      [] statement.variant = "Query" -> {statement.expression}
      [] OTHER -> {statement}

\* the verbs declared by the statements before the i-th
DeclaredBefore(program, i) ==
    {program[j].verb : j \in {k \in 1..(i - 1) : IsVerbDeclaration(program[k])}}

\* every SVO clause of the parsed statements has a verb that a statement
\* before it declared
VerbsDeclaredEarlier ==
    \A i \in DOMAIN ast : \A clause \in ClausesOf(ast[i]) :
        IsSVOClause(clause) => clause.verb \in DeclaredBefore(ast, i)

\* the clause stands in an expression: a query, a premise or a conclusion
ExpressionPlacements(clause) == Placements(clause) \ {clause}

\* the programs whose clause over the verb v fails to parse: the clause as a
\* statement of its own, or written with spaces at any place
FailingPrograms ==
    UndeclaredVerbPrograms({MergedClause} \cup Placements(SpacedClause))

\* the programs whose clause over the verb v is written without spaces and
\* stands in an expression
MergedExpressionPrograms == UndeclaredVerbPrograms(ExpressionPlacements(MergedClause))

\* the merged clause, read as a plain proposition
MergedProposition == Proposition(Text(MergedClause[1].value), FALSE)

\* C17 as stated: parsing succeeds for no program in which a clause, wherever
\* it stands, uses the verb v declared only later or not at all.
C17_EveryPlacementFails ==
    parser.tokens \in UndeclaredVerbPrograms(UNION {Placements(clause) :
                                                        clause \in LateVerbClauses})
    => pc # "parsed"

C17_Safety ==
    /\ VerbsDeclaredEarlier
    /\ parser.tokens \in FailingPrograms => pc # "parsed"
    /\ parser.tokens \in FailingPrograms /\ pc = "parse_error" => raised = "Undeclared verb"
    /\ parser.tokens \in MergedExpressionPrograms /\ pc = "parsed"
        => \E i \in DOMAIN ast : /\ MergedProposition \in ClausesOf(ast[i])
                                 /\ ast[i].variant \in {"Rule", "Query"}
    /\ parser.tokens \in MergedExpressionPrograms => pc # "parse_error"

\* C17 (amended): parsing ends in an undeclared-verb error for every program
\* in which a clause that stands as a top-level statement, or a clause of
\* several tokens at any place, uses a verb declared only later or not at
\* all; a clause of one token that stands in a query, a premise or a
\* conclusion and holds no verb declared so far is read as a plain
\* proposition, and parsing goes on; no parsed SVO clause has a verb that
\* was not declared by an earlier statement.
C17_Ends ==
    /\ (parser.tokens \in FailingPrograms) ~> (pc = "parse_error")
    /\ (parser.tokens \in MergedExpressionPrograms) ~> (pc = "parsed")

C17_UndeclaredVerb == []C17_Safety /\ C17_Ends

\* a clause written with spaces failed in a premise although the verb is
\* declared on the next line
C17_Witness ==
    /\ parser.tokens = Declarations({<<"w">>}) \o AsPremise(SpacedClause) \o <<NEWLINE>>
                            \o Declaration(<<"v">>) \o <<EOF>>
    /\ pc = "parse_error"
    /\ raised = "Undeclared verb"
    /\ Len(ast) = 1

\* a merged clause in a query was read as a proposition and the declaration
\* after it was parsed as well
C17_MergedQueryParsed ==
    /\ parser.tokens = InQuery(MergedClause) \o <<NEWLINE>> \o Declaration(<<"v">>) \o <<EOF>>
    /\ pc = "parsed"
    /\ ast = <<Query(MergedProposition), VerbDeclaration("v")>>


(***************************************************************************)
(* Claims about the segmentation of SVO clauses.                           *)
(***************************************************************************)
\* the verbs that the declarations of the source declare
SourceVerbs(tokens) ==
    {tokens[i + 1].value : i \in {j \in 1..(Len(tokens) - 1) : tokens[j] = Keyword("yi")}}

\* the source declares the verbs of its lexicon and then holds, as a statement
\* or in a query, a clause that the lexer made the one token of
StatementOf(clause) == clause

ClauseProgram(tokens, clause, Place(_)) ==
    tokens = Declarations(SourceVerbs(tokens)) \o Place(clause) \o <<EOF>>

\* sub occurs in text at the index p, counted from 0
OccursAt(text, sub, p) ==
    /\ p \in 0..(Len(text) - Len(sub))
    /\ SubSeq(text, p + 1, p + Len(sub)) = sub

\* the declared verbs that occur in text
Matching(text, lexicon) ==
    {verb \in lexicon : \E p \in 0..Len(text) : OccursAt(text, verb, p)}

\* the index of the first occurrence of a verb that occurs in text
FirstOccurrence(text, verb) ==
    CHOOSE p \in 0..Len(text) :
        /\ OccursAt(text, verb, p)
        /\ \A q \in 0..(p - 1) : ~OccursAt(text, verb, q)

\* exactly one declared verb occurs in text, and its occurrence neither
\* starts at index 0 nor ends at the last character
Segmentable(text, lexicon) ==
    /\ Cardinality(Matching(text, lexicon)) = 1
    /\ \A verb \in Matching(text, lexicon) :
        /\ FirstOccurrence(text, verb) # 0
        /\ FirstOccurrence(text, verb) + Len(verb) # Len(text)

\* subject = the text before the verb, object = the text after it, each
\* flagged variable iff it starts with the marker
Segmented(text, lexicon) ==
    LET verb == CHOOSE v \in Matching(text, lexicon) : TRUE
        p == FirstOccurrence(text, verb)
        before == SubSeq(text, 1, p)
        after == SubSeq(text, p + Len(verb) + 1, Len(text))
    IN  SVOClause(Text(before), before[1] = "qi", Text(verb), FALSE,
                  Text(after), after[1] = "qi")

\* what parsing the clause of the one token with the value text ends with
SegmentationOutcome(text, lexicon, Place(_)) ==
    /\ pc = "parsed"
        => /\ Segmentable(text, lexicon)
           /\ ast[Len(ast)] = Place(Segmented(text, lexicon))
    /\ pc = "parse_error"
        => /\ ~Segmentable(text, lexicon)
           /\ Matching(text, lexicon) = {} => raised = "Undeclared verb"
           /\ Cardinality(Matching(text, lexicon)) >= 2 => raised = "Multiple verbs"
           /\ Cardinality(Matching(text, lexicon)) = 1
                => raised \in {"No subject before the verb", "No object after the verb"}

C18_Safety ==
    LET tokens == parser.tokens
        n == Len(tokens)
    IN  /\ n >= 2 /\ ClauseProgram(tokens, <<tokens[n - 1]>>, StatementOf)
             /\ tokens[n - 1].type \in {"IDENTIFIER", "VARIABLE"}
            => SegmentationOutcome(tokens[n - 1].value, SourceVerbs(tokens), StatementOf)
        /\ n >= 4 /\ ClauseProgram(tokens, <<tokens[n - 2]>>, InQuery)
             /\ tokens[n - 2].type \in {"IDENTIFIER", "VARIABLE"}
             /\ Matching(tokens[n - 2].value, SourceVerbs(tokens)) # {}
            => SegmentationOutcome(tokens[n - 2].value, SourceVerbs(tokens), Query)

\* C18: an SVO clause of one merged token is segmented iff exactly one
\* declared verb occurs in its text and the occurrence neither starts at
\* index 0 nor ends at the last character; subject and object are then the
\* text before and after the verb, each flagged variable iff it starts with
\* the marker.  If no declared verb occurs, parsing ends in an
\* undeclared-verb error, and if two or more do, in a multiple-verbs error,
\* in whatever order the vocabulary is enumerated; parsing always ends.
C18_SingleTokenSegmentation ==
    []C18_Safety /\ ((pc = "parse_program") ~> (pc \in {"parsed", "parse_error"}))

\* a clause with a variable subject was segmented at its one declared verb
C18_Witness ==
    /\ parser.tokens = Declaration(<<"v">>) \o <<Word(<<"qi", "a", "v", "w">>), EOF>>
    /\ pc = "parsed"
    /\ ast = <<VerbDeclaration("v"), SVOClause("qia", TRUE, "v", FALSE, "w", FALSE)>>

\* a clause in which a verb and a longer verb that holds it occur was refused
C18_AmbiguousRefused ==
    /\ SourceVerbs(parser.tokens) = {<<"v">>, <<"a", "v">>}
    /\ parser.tokens[Len(parser.tokens) - 1] = Word(<<"w", "a", "v", "w">>)
    /\ pc = "parse_error"
    /\ raised = "Multiple verbs"

\* a clause whose verb occurs twice, the first time at index 0, was refused
C18_FirstOccurrenceDecides ==
    /\ SourceVerbs(parser.tokens) = {<<"v">>}
    /\ parser.tokens[Len(parser.tokens) - 1] = Word(<<"v", "a", "v", "w">>)
    /\ pc = "parse_error"
    /\ raised = "No subject before the verb"


\* the tokens of the source from the end of its declarations up to the token
\* that is last tokens from the end
RunOf(tokens, first, last) ==
    SubSeq(tokens, Len(Declarations(SourceVerbs(tokens))) + first, Len(tokens) - last)

\* a run of identifier, variable and INDENT tokens that starts with a name and
\* holds two names or more
IsRun(run) ==
    /\ run # <<>>
    /\ \A i \in DOMAIN run : run[i].type \in {"IDENTIFIER", "VARIABLE", "INDENT"}
    /\ IsWord(run[1])
    /\ Len(SelectSeq(run, IsWord)) >= 2

\* the indexes of the tokens of the run that equal a declared verb
MatchingTokens(words, lexicon) == {i \in DOMAIN words : words[i].value \in lexicon}

\* exactly one token equals a declared verb, and it is neither the first nor
\* the last of the run
RunSegmentable(words, lexicon) ==
    /\ Cardinality(MatchingTokens(words, lexicon)) = 1
    /\ MatchingTokens(words, lexicon) \cap {1, Len(words)} = {}

\* the concatenation of the values of the tokens i..j of the run
RECURSIVE Concatenation(_, _, _)
Concatenation(words, i, j) ==
    IF i > j THEN "" ELSE Text(words[i].value) \o Concatenation(words, i + 1, j)

\* subject = the tokens before the verb, object = the tokens after it, each
\* flagged variable iff one of its tokens is a variable token
RunSegmented(words, lexicon) ==
    LET v == CHOOSE i \in MatchingTokens(words, lexicon) : TRUE
    IN  SVOClause(Concatenation(words, 1, v - 1),
                  \E i \in 1..(v - 1) : words[i].type = "VARIABLE",
                  Text(words[v].value),
                  words[v].type = "VARIABLE",
                  Concatenation(words, v + 1, Len(words)),
                  \E i \in (v + 1)..Len(words) : words[i].type = "VARIABLE")

\* what parsing the clause of the tokens of the run ends with
RunOutcome(run, lexicon, Place(_)) ==
    LET words == SelectSeq(run, IsWord)
    IN  /\ pc = "parsed"
            => /\ RunSegmentable(words, lexicon)
               /\ ast[Len(ast)] = Place(RunSegmented(words, lexicon))
        /\ pc = "parse_error"
            => /\ ~RunSegmentable(words, lexicon)
               /\ MatchingTokens(words, lexicon) = {} => raised = "Undeclared verb"
               /\ Cardinality(MatchingTokens(words, lexicon)) >= 2 => raised = "Multiple verbs"
               /\ Cardinality(MatchingTokens(words, lexicon)) = 1
                    => raised \in {"No subject before the verb", "No object after the verb"}

C19_Safety ==
    LET tokens == parser.tokens
        statement == RunOf(tokens, 1, 1)
        expression == RunOf(tokens, 2, 2)
    IN  /\ IsRun(statement) /\ ClauseProgram(tokens, statement, StatementOf)
            => RunOutcome(statement, SourceVerbs(tokens), StatementOf)
        /\ IsRun(expression) /\ ClauseProgram(tokens, expression, InQuery)
            => RunOutcome(expression, SourceVerbs(tokens), Query)

\* C19: an SVO clause of several identifier and variable tokens is segmented
\* iff exactly one token equals a declared verb and that token is neither the
\* first nor the last of the run; the subject is the concatenation of the
\* tokens before it and the object that of the tokens after it, each flagged
\* variable iff one of its tokens is a variable token, and the verb keeps the
\* flag of its token.  If no token equals a declared verb, parsing ends in
\* an undeclared-verb error, and if more than one does, in a multiple-verbs
\* error; parsing always ends.
C19_MultiTokenSegmentation ==
    []C19_Safety /\ ((pc = "parse_program") ~> (pc = "parsed" \/ pc = "parse_error"))

\* a clause whose subject is two tokens, one of them a variable, was segmented
C19_Witness ==
    /\ parser.tokens = Declaration(<<"v">>)
            \o <<Word(<<"a">>), Word(<<"qi", "a">>), Word(<<"v">>), Word(<<"a">>), EOF>>
    /\ pc = "parsed"
    /\ ast = <<VerbDeclaration("v"), SVOClause("aqia", TRUE, "v", FALSE, "a", FALSE)>>

\* a clause in a query whose verb is a variable token was segmented
C19_VariableVerb ==
    /\ parser.tokens = Declaration(<<"qi", "v">>)
            \o InQuery(<<Word(<<"a">>), INDENT, Word(<<"qi", "v">>), Word(<<"qi", "a">>)>>)
            \o <<EOF>>
    /\ pc = "parsed"
    /\ ast = <<VerbDeclaration("qiv"), Query(SVOClause("a", FALSE, "qiv", TRUE, "qia", TRUE))>>

\* a clause that holds its declared verb twice was refused
C19_VerbTwice ==
    /\ parser.tokens = Declaration(<<"v">>)
            \o <<Word(<<"a">>), Word(<<"v">>), Word(<<"v">>), Word(<<"a">>), EOF>>
    /\ pc = "parse_error"
    /\ raised = "Multiple verbs"


(***************************************************************************)
(* Claims about classification edges.                                      *)
(***************************************************************************)
\* the tokens between the second token of the source, zhe, and its last ye
Between(tokens) == SubSeq(tokens, 3, Len(tokens) - 2)

\* the source is one classification edge: a name, zhe, tokens that hold a
\* name and no ye, ye, and the end of input
IsEdgeSource(tokens) ==
    /\ Len(tokens) >= 5
    /\ IsWord(tokens[1])
    /\ tokens[2] = Keyword("zhe")
    /\ tokens[Len(tokens) - 1] = Keyword("ye")
    /\ tokens[Len(tokens)] = EOF
    /\ \E i \in DOMAIN Between(tokens) : IsWord(Between(tokens)[i])
    /\ \A i \in DOMAIN Between(tokens) : Between(tokens)[i] # Keyword("ye")

\* C20 as stated, for an edge whose terminating ye is there: every token
\* between zhe and ye is absorbed, so parsing does not fail and the supertype
\* is the concatenation of the values of these tokens in order.
C20_AbsorbsEveryToken ==
    IsEdgeSource(parser.tokens)
    => /\ pc # "parse_error"
       /\ pc = "parsed"
            => ast = <<ClassificationEdge(
                            Text(parser.tokens[1].value),
                            parser.tokens[1].type = "VARIABLE",
                            Text(Join(ValuesOf(Between(parser.tokens)))),
                            AnyVariable(Between(parser.tokens)))>>

\* an edge whose supertype holds a keyword was parsed: the keyword is part
\* of the supertype
C20_KeywordAbsorbed ==
    /\ parser.tokens = <<Word(<<"a">>), Keyword("zhe"), Keyword("dong"), Word(<<"b">>),
                         Keyword("ye"), EOF>>
    /\ pc = "parsed"
    /\ ast = <<ClassificationEdge("a", FALSE, "dongb", FALSE)>>

\* an edge with an INDENT token between its supertype and ye was refused
C20_IndentRefused ==
    /\ parser.tokens = <<Word(<<"a">>), Keyword("zhe"), Word(<<"b">>), INDENT,
                         Keyword("ye"), EOF>>
    /\ pc = "parse_error"
    /\ raised = "Unexpected token"
    /\ parser.position = 3


(***************************************************************************)
(* Claims about bare propositions.                                         *)
(***************************************************************************)
\* the token with the value text, read as a plain proposition
PlainProposition(text) == Proposition(Text(text), text[1] = "qi")

\* the source declares its verbs and then holds one token, as a statement or
\* in a query, in which no declared verb occurs
BareStatement(tokens) ==
    /\ Len(tokens) >= 2
    /\ IsWord(tokens[Len(tokens) - 1])
    /\ ClauseProgram(tokens, <<tokens[Len(tokens) - 1]>>, StatementOf)
    /\ Matching(tokens[Len(tokens) - 1].value, SourceVerbs(tokens)) = {}

BareQuery(tokens) ==
    /\ Len(tokens) >= 4
    /\ IsWord(tokens[Len(tokens) - 2])
    /\ ClauseProgram(tokens, <<tokens[Len(tokens) - 2]>>, InQuery)
    /\ Matching(tokens[Len(tokens) - 2].value, SourceVerbs(tokens)) = {}

\* C21 as stated: a top-level statement of one identifier that holds no
\* declared verb and is directly followed by the end of the statement is
\* parsed as a plain Proposition.
C21_BareStatementIsProposition ==
    BareStatement(parser.tokens)
    => /\ pc # "parse_error"
       /\ pc = "parsed"
            => ast[Len(ast)] = PlainProposition(parser.tokens[Len(parser.tokens) - 1].value)

C21_Safety ==
    /\ BareStatement(parser.tokens)
        => /\ pc # "parsed"
           /\ pc = "parse_error" => raised = "Undeclared verb"
           /\ \A i \in DOMAIN ast : IsVerbDeclaration(ast[i])
    /\ BareQuery(parser.tokens)
        => /\ pc # "parse_error"
           /\ pc = "parsed"
                => ast[Len(ast)] =
                        Query(PlainProposition(parser.tokens[Len(parser.tokens) - 2].value))
    /\ parser.tokens \in MergedExpressionPrograms /\ pc = "parsed"
        => \E i \in DOMAIN ast :
                /\ ast[i].variant \in {"Rule", "Query"}
                /\ PlainProposition(MergedClause[1].value) \in ClausesOf(ast[i])
                /\ \A clause \in ClausesOf(ast[i]) : IsProposition(clause)

\* C21 (amended): in a query expression, a rule premise or a rule conclusion,
\* an identifier that holds no declared verb and is directly followed by a
\* statement boundary is parsed as a plain Proposition, without SVO
\* segmentation.  In top-level dispatch a statement with no leading particle
\* is never parsed as a Proposition: such an identifier goes to SVO
\* segmentation, and parsing ends in an undeclared-verb error.
C21_BareProposition ==
    /\ []C21_Safety
    /\ BareStatement(parser.tokens) ~> (pc = "parse_error")
    /\ BareQuery(parser.tokens) ~> (pc = "parsed")

\* a bare identifier in a query, a verb that does not occur in it being
\* declared, was parsed as a plain proposition
C21_Witness ==
    /\ parser.tokens = Declaration(<<"v">>) \o InQuery(<<Word(<<"a", "w">>)>>) \o <<EOF>>
    /\ pc = "parsed"
    /\ ast = <<VerbDeclaration("v"), Query(Proposition("aw", FALSE))>>

\* the same identifier as a statement of its own was refused
C21_BareStatementRefused ==
    /\ parser.tokens = Declaration(<<"v">>) \o <<Word(<<"a", "w">>), EOF>>
    /\ pc = "parse_error"
    /\ raised = "Undeclared verb"
    /\ ast = <<VerbDeclaration("v")>>


(***************************************************************************)
(* Claims about the fact set across the rounds of fixpoint.                *)
(***************************************************************************)
\* fixpoint is running: the driver is at the start of one half of a round
InFixpoint == pc \in {"fixpoint_closure", "fixpoint_rules"}

\* every classification edge of the fact set is in classification_edges
EdgesTracked(F, E) == ClassEdgesOf(F) \subseteq E

C22_Step == InFixpoint /\ EdgesTracked(facts, classification_edges) => facts \subseteq facts'

\* the facts of a context that entered fixpoint with its edges tracked are
\* there in every round and at return
C22_EntryFactsKept ==
    /\ pc \in {"fixpoint_closure", "fixpoint_rules", "fixpoint_returned"}
    /\ EdgesTracked(entry.facts, entry.classification_edges)
    => entry.facts \subseteq facts

\* after the first half of the first round the edges are tracked, whatever
\* the context at entry
C22_TrackedAfterFirstStep ==
    pc \in {"fixpoint_rules", "fixpoint_returned"}
    => EdgesTracked(facts, classification_edges)

C22_UntrackedEdgeDropped ==
    /\ pc = "fixpoint_rules"
    /\ EdgeAB \in entry.facts
    /\ entry.classification_edges = {}
    /\ EdgeAB \notin facts


(***************************************************************************)
(* Claims about the names and the variables of the facts.                  *)
(***************************************************************************)
\* the names held by the slots of node, and those held by its slots that are
\* not flagged variable
NamesOf(node) == {SlotsOfNode(node)[i][1] : i \in DOMAIN SlotsOfNode(node)}

ConstantsOf(node) ==
    {SlotsOfNode(node)[i][1] : i \in {j \in DOMAIN SlotsOfNode(node) : ~SlotsOfNode(node)[j][2]}}

\* the facts, premises and conclusions of the context that entered fixpoint
ProgramNodes ==
    entry.facts \cup UNION {SetOf(rule.premises) \cup {rule.conclusion} : rule \in SetOf(rules)}

ProgramNames == UNION {NamesOf(node) : node \in ProgramNodes}

ProgramConstants == UNION {ConstantsOf(node) : node \in ProgramNodes}

\* every variable of the conclusion occurs in a premise
RangeRestricted(rule) ==
    VariablesOf(rule.conclusion) \subseteq UNION {VariablesOf(premise) : premise \in SetOf(rule.premises)}

\* the asserted facts are ground and the rules are range restricted
GroundProgram ==
    /\ \A fact \in entry.facts : IsGround(fact)
    /\ \A rule \in SetOf(rules) : RangeRestricted(rule)

\* fixpoint has been entered
FixpointEntered == pc \in {"fixpoint_closure", "fixpoint_rules", "fixpoint_returned"}

C23_VariableNameAsConstant ==
    /\ pc = "fixpoint_returned"
    /\ VarFactY \in entry.facts
    /\ Proposition("qiY", FALSE) \in facts


\* the facts that the rule engine (apply_rule, for every premise) and the
\* query evaluator hand to unify as its fact argument at the next step
PassedToUnify ==
    IF \/ pc = "fixpoint_rules" /\ rules # <<>>
       \/ pc = "fixpoint_returned" /\ Len(output) < Len(queries)
    THEN facts
    ELSE {}

\* unify takes the branch that binds a variable of the fact for some slot of
\* pattern and fact: the slot of the fact is flagged and that of the pattern
\* is not
FactSideBranch(pattern, fact) ==
    /\ pattern.variant = fact.variant
    /\ \E i \in DOMAIN SlotsOfNode(fact) :
            SlotsOfNode(fact)[i][2] /\ ~SlotsOfNode(pattern)[i][2]

C24_FactSideBranchTaken ==
    /\ parser.position > 0
    /\ pc = "done"
    /\ facts = {Proposition("qiY", TRUE)}
    /\ queries = <<Query(Proposition("a", FALSE))>>
    /\ FactSideBranch(queries[1].expression, Proposition("qiY", TRUE))
    /\ output = <<"T">>


(***************************************************************************)
(* Permuted premises.                                                      *)
(***************************************************************************)
\* the orders in which a list of n premises can be written
Orderings(n) ==
    {p \in [1..n -> 1..n] : \A i, j \in 1..n : p[i] = p[j] => i = j}

\* the rules that differ from rule in the order of the premises only
PermutedRules(rule) ==
    {Rule([i \in 1..Len(rule.premises) |-> rule.premises[p[i]]], rule.conclusion) :
        p \in Orderings(Len(rule.premises))}

\* the rule lists that differ from rs in the order of the premises of each
\* rule only
PermutedRuleLists(rs) ==
    {ps \in [DOMAIN rs -> UNION {PermutedRules(rs[i]) : i \in DOMAIN rs}] :
        \A i \in DOMAIN rs : ps[i] \in PermutedRules(rs[i])}

\* C25: the set apply_rule returns for a rule on the fact set of a round is
\* the set it returns for the rule with its premises permuted, and with it
\* the set of new facts of the round, which decides the next fact set and
\* the return of fixpoint.
C25_PremiseOrderIrrelevant ==
    pc = "fixpoint_rules"
    => \A order \in Enumerations(facts) :
        /\ \A i \in DOMAIN rules : \A permuted \in PermutedRules(rules[i]) :
                apply_rule(permuted, facts, order) = apply_rule(rules[i], facts, order)
        /\ \A ps \in PermutedRuleLists(rules) :
                CollectNewFacts(ps, 1, facts, order, {})
                    = CollectNewFacts(rules, 1, facts, order, {})

\* a rule of two different premises that share a variable is applied to
\* facts that match each premise more than once, some combinations are
\* inconsistent, and a fact is derived
C25_Witness ==
    /\ pc = "fixpoint_rules"
    /\ \E i \in DOMAIN rules : \E order \in Enumerations(facts) :
        LET pm == premise_matches(rules[i], order)
        IN  /\ Len(rules[i].premises) = 2
            /\ rules[i].premises[1] # rules[i].premises[2]
            /\ PermutedRules(rules[i]) # {rules[i]}
            /\ \A k \in DOMAIN pm : Len(pm[k]) > 1
            /\ \E c \in Product(pm) : MergeSubsts(c, 1, EmptySubst) = None
            /\ apply_rule(rules[i], facts, order) # {}


(***************************************************************************)
(* The verb vocabulary during parsing.                                     *)
(***************************************************************************)
\* the step appended a statement to the list parse_program_internal builds
Appended == Len(ast') = Len(ast) + 1

\* the step parsed a verb declaration completely
DeclarationParsed == Appended /\ ast'[Len(ast')].variant = "VerbDeclaration"

\* the first token of the statement the parser is at
StatementStart == Skip(parser.tokens, parser.position, {"INDENT", "NEWLINE"})

\* the parser is at a statement that opens a verb declaration
AtDeclaration == peek(parser.tokens, StatementStart, 0) = Keyword("yi")

C26_Step ==
    /\ parser.verb_lexicon \subseteq parser'.verb_lexicon
    /\ DeclarationParsed
        => /\ AtDeclaration
           /\ parser'.verb_lexicon
                = parser.verb_lexicon \cup {peek(parser.tokens, StatementStart, 1).value}
           /\ ast'[Len(ast')].verb = Text(peek(parser.tokens, StatementStart, 1).value)
    /\ ~DeclarationParsed => parser'.verb_lexicon = parser.verb_lexicon

\* C26: a parsing step changes the verb vocabulary only if it parsed a verb
\* declaration completely, and then it adds exactly the declared verb; every
\* other step, that of a verb declaration that fails part-way included,
\* leaves the vocabulary as it is, and no step removes a verb.
C26_VocabularyFrame == [][C26_Step]_vars

\* a verb declaration failed after its verb was read, a declaration of
\* another verb having been parsed before it: the vocabulary holds the verb
\* of the complete declaration only
C26_Witness ==
    /\ pc = "parse_error"
    /\ ast = <<VerbDeclaration("w")>>
    /\ parser.verb_lexicon = {<<"w">>}
    /\ \E start \in 1..parser.position :
        /\ peek(parser.tokens, start, 0) = Keyword("yi")
        /\ peek(parser.tokens, start, 1) = Word(<<"v">>)
        /\ parser.position > start + 1


(***************************************************************************)
(* context.classification_edges and the edges of context.facts.            *)
(***************************************************************************)
\* classification_edges is the set of the ClassificationEdge members of facts
EdgesAreEdgeFacts(F, E) == E = ClassEdgesOf(F)

\* C27: the context eval_program builds has as classification_edges exactly
\* the ClassificationEdge members of its facts, and a fixpoint entered with a
\* context of which this is true keeps it true through every round, at the
\* end of the round as after its closure half, and at return.
C27_EdgesTrackFacts ==
    /\ pc # "eval_program"
        => EdgesAreEdgeFacts(entry.facts, entry.classification_edges)
    /\ FixpointEntered /\ EdgesAreEdgeFacts(entry.facts, entry.classification_edges)
        => EdgesAreEdgeFacts(facts, classification_edges)

\* fixpoint returned after a round in which a rule derived an edge and a
\* round whose closure derived another from it
C27_Witness ==
    /\ pc = "fixpoint_returned"
    /\ entry.classification_edges = {EdgeAB}
    /\ EdgeBC \in classification_edges
    /\ EdgeAC \in classification_edges
    /\ EdgesAreEdgeFacts(facts, classification_edges)


(***************************************************************************)
(* What a successful unification returns.                                  *)
(***************************************************************************)
Succeeded(result) == result \notin {None, TypeError}

\* unify(pattern, fact, {}) returned a substitution for a ground fact
GroundCallSucceeded ==
    /\ UnifyReturned
    /\ call.subst = EmptySubst
    /\ IsGround(call.fact)
    /\ Succeeded(call.result)

C28_Result ==
    GroundCallSucceeded
    => /\ apply_substitution(call.pattern, call.result) = call.fact
       /\ DOMAIN call.result = VariablesOf(call.pattern)

\* a call of unify leaves the dict it was given as it is, and a result that
\* is a substitution holds every binding of that dict
C28_Step ==
    (pc = "caller" /\ pc' = "returned" /\ call'.function = "unify")
    => /\ call'.subst = call.subst
       /\ Succeeded(call'.result)
            => \A var \in DOMAIN call.subst :
                    var \in DOMAIN call'.result /\ call'.result[var] = call.subst[var]

\* C28: a substitution s that unify(pattern, fact, {}) returns for a ground
\* fact makes the pattern equal to the fact when it is applied to it, and
\* its keys are exactly the variable names of the pattern; unify never
\* changes the substitution it is given, and keeps every binding of it in
\* the substitution it returns.
C28_UnifyContract == []C28_Result /\ [][C28_Step]_vars

\* unify({}) bound the two variables of an SVO pattern to a ground fact
C28_Witness ==
    /\ GroundCallSucceeded
    /\ call.pattern = SVOClause("qiX", TRUE, "v", FALSE, "qiY", TRUE)
    /\ call.fact = SVOClause("A", FALSE, "v", FALSE, "B", FALSE)
    /\ call.result = ("qiX" :> "A") @@ ("qiY" :> "B")

\* unify extended a substitution that binds a name the pattern does not
\* hold by the binding of the pattern's variable
C28_GivenBindingsKept ==
    /\ UnifyReturned
    /\ call.subst = ("A" :> "B")
    /\ call.pattern = Proposition("qiX", TRUE)
    /\ call.fact = Proposition("A", FALSE)
    /\ call.result = ("A" :> "B") @@ ("qiX" :> "A")


(***************************************************************************)
(* Ground facts stay ground.                                               *)
(***************************************************************************)
\* C29: when the facts fixpoint was entered with are ground and no rule has
\* in its conclusion a variable that none of its premises holds, the fact
\* set holds ground facts only, in every round of fixpoint and at return.
C29_GroundFactsStayGround ==
    (FixpointEntered /\ GroundProgram) => \A fact \in facts : IsGround(fact)

\* fixpoint returned from ground facts after the rule with two premises
\* that share a variable derived a new fact, which is ground
C29_Witness ==
    /\ pc = "fixpoint_returned"
    /\ GroundProgram
    /\ RuleSvoTrans \in SetOf(rules)
    /\ {SvoAB, SvoBC} \subseteq entry.facts
    /\ SVOClause("A", FALSE, "v", FALSE, "C", FALSE) \in facts \ entry.facts


(***************************************************************************)
(* Termination of parse_program.                                           *)
(***************************************************************************)
\* the index of the end-of-input token, positions counting from 0
EndIndex(tokens) == Len(tokens) - 1

C30_Safety ==
    /\ parser.tokens[Len(parser.tokens)] = EOF
    /\ parser.position \in 0..EndIndex(parser.tokens)
    /\ advance(parser.tokens, parser.position) <= EndIndex(parser.tokens)
    /\ \A offset \in 0..Len(parser.tokens) :
            parser.position + offset >= EndIndex(parser.tokens)
            => peek(parser.tokens, parser.position, offset) = EOF
    /\ pc = "parsed" => parser.position = EndIndex(parser.tokens)

\* a step that appends a statement has consumed a token, and no step moves
\* the position back
C30_Step ==
    /\ parser'.position >= parser.position
    /\ Appended => parser'.position > parser.position

\* C30: parse_program on a token list that ends in the end-of-input token
\* ends, with the statement list or with a parse error; the position stays
\* at or before the index of the end-of-input token, where advance does not
\* move it and every token read at or beyond that index is the end-of-input
\* token; and every statement that is parsed consumes at least one token.
C30_ParseProgramTerminates ==
    /\ []C30_Safety
    /\ [][C30_Step]_vars
    /\ (pc = "parse_program") ~> (pc \in {"parsed", "parse_error"})

\* parse_program returned four statements, the position at the
\* end-of-input token
C30_Witness ==
    /\ pc = "parsed"
    /\ Len(ast) = 4
    /\ parser.position = EndIndex(parser.tokens)
    /\ parser.position > Len(ast)

\* parse_program raised after it had parsed a statement, before the
\* end-of-input token
C30_RaisedBeforeEnd ==
    /\ pc = "parse_error"
    /\ Len(ast) > 0
    /\ parser.position < EndIndex(parser.tokens)

====
